---------------------------- MODULE Spec2Model ----------------------------
(***************************************************************************)
(* tap-zuora: the per-stream sync engine of tap_zuora/sync.py (batch       *)
(* "AQuA" driver and synchronous "REST" driver) and the run loop of        *)
(* tap_zuora/__init__.py (ZuoraClient.do_sync).                            *)
(*                                                                         *)
(* Timestamps are kept as the strings the program keeps: an instant in     *)
(* whole seconds together with the format it was written in, because the   *)
(* program compares bookmarks as strings (sync.py:114) and parses them     *)
(* back to instants (sync.py:143-144, 247).                                *)
(***************************************************************************)
EXTENDS Integers, Sequences, FiniteSets, TLC

VARIABLES
    prog,           \* which entry point runs: "sync_stream", "do_sync" or "client"
    pc,             \* control location
    error,          \* the exception that ended the run ("" while none)
    out,            \* messages written so far (singer.write_state/_record/_schema)
    now,            \* the wall clock, in seconds
    \* ---- tap_zuora/sync.py ----
    is_rest,        \* client.is_rest
    has_rk,         \* stream.get("replication_key") is truthy
    state,          \* state["bookmarks"][stream["tap_stream_id"]]
    loc,            \* local variables of sync.py's functions:
                    \*   file_ids      the list file_ids of sync_file_ids
                    \*   aliased       file_ids is the very list object held in state
                    \*   start_date    sync_file_ids' start_date (<<>> for None)
                    \*   ret           the caller sync_file_ids returns to
                    \*   cur_file      id of the file whose lines are being read
                    \*   start_pen, sync_started, window_length
                    \*                 of iterate_rest_query_window
                    \*   job           window <<start, end>> of the REST job polled
    hist,           \* history of the stream sync:
                    \*   state0        the bookmark entry when the sync began
                    \*   jobs          export jobs created
                    \*   pending       jobs created that were not seen to complete
                    \*                 or fail
                    \*   poll          polls of the job in flight: how many found
                    \*                 it pending, the status of the last answer,
                    \*                 its message and what ExportFailed carried
                    \*   timeouts      polling timeouts
                    \*   rows          lines read from export files
                    \*   dropped       replication-key values of the rows that line
                    \*                 114 skipped
                    \*   streamed      ids of the files opened, in order
                    \*   last          what the last step did
                    \*   query         what the last batch job was submitted with
                    \*   poll          the polls of the job at hand: how many found
                    \*                 it pending, the status and the message of the
                    \*                 last answer, and the message of the
                    \*                 ExportFailed raised (<<>> for none)
    \* ---- tap_zuora/__init__.py ----
    current_entity, \* ZuoraState.current_entity (0 for None)
    bookmarks,      \* ZuoraState.state: entity -> bookmark (<<>> for none)
    idx,            \* position of do_sync's for loop in the entity list
    started,        \* do_sync's started flag
    entities,       \* get_available_entities(): per entity, has it an update_field
    input_entity,   \* current_entity of the input state (0 for none)
    synced,         \* entities whose sync() was entered, in order
    nrec,           \* lines read from exports in this run
    \* ---- tap_zuora/client.py ----
    config,         \* the config given to Client.from_config (api_type is is_rest)
    cli,            \* the Client under construction and its requests:
                    \*   auth_type, access_token, base_url   attributes (<<>> for None/unset)
                    \*   posts      base urls get_access_token posted to, in order
                    \*   probes     url prefixes get_url probed, in order
                    \*   answers    what each probe of get_url ended with
                    \*   url_check, body   of the request of _retryable_request: its
                    \*              url_check argument, and the kind of body of
                    \*              the answer that check_for_error saw
                    \*   statuses   status codes received by the attempts of the request
                    \*   result     how the request ended ("" while it runs)
                    \*   expires    the instant the server lets the access token
                    \*              expire (<<>> without a token)
                    \*   sent       the requests sent after construction: the
                    \*              Authorization each carried and the seconds its
                    \*              token had left
    \* ---- tap_zuora/discover.py ----
    disc,           \* discover_streams:
                    \*   names      discover_stream_names(client), in order
                    \*   pos        names the loop is done with
                    \*   streams    the names of the streams list (the catalog)
                    \*   failed     failed_stream_names
                    \*   last       what the requests for the last name were
                    \*              answered with (nsd: the probe was answered
                    \*              400 with a noSuchDataSource message)
                    \*   listing    how the request of the listing ended
    \* ---- loading the state (State Manager) ----
    load,           \* the load of the input state:
                    \*   catalog    per stream of the catalog: is it selected, has
                    \*              it a replication key
                    \*   input      the state given to the function
                    \*   result     the state it returned (<<>> before)
    \* ---- tap_zuora/state.py ----
    sobj,           \* a State object and the calls made on it:
                    \*   bookmarks  self.bookmarks: per entity name, is the name a
                    \*              key, and the version and bookmark held for it
                    \*              (<<>> for a missing key)
                    \*   default_start_date
                    \*   calls      calls made so far
                    \*   last       the last call: the method, the entity, the
                    \*              bookmark given, what it returned, did it raise
    \* ---- an interrupted sync and the sync that resumes it ----
    srv             \* the server's side of a stream sync that is followed over
                    \* an interruption (tracked), unused otherwise:
                    \*   table      the rows the server holds for the stream: their
                    \*              replication-key values, in the order it
                    \*              exports them
                    \*   files      the lines of each file of the last export
                    \*   pos        lines read of the file that is open
                    \*   run        1, and 2 once the sync was started again
                    \*   exported   the number of files of the export the first run
                    \*              got (0 while it got none)
                    \*   bookmark   the bookmark the first run was given

svars == <<is_rest, has_rk, state, loc, hist>>
dvars == <<current_entity, bookmarks, idx, started, entities, input_entity, synced, nrec>>
cvars == <<config, cli>>
mvars == <<disc, load, sobj, srv>>
vars  == <<prog, pc, error, out, now, svars, dvars, cvars, mvars>>

---------------------------------------------------------------------------
(* Bounds of the model *)
MaxRows     == 2    \* lines read from export files in one stream sync
MaxFiles    == 2    \* files of one export
MaxTimeouts == 2    \* polling timeouts the environment produces in Spec
MaxEntities == 3    \* entities of the legacy run loop
MaxRequests == 2    \* requests sent by a constructed Client
MaxObjects  == 2    \* object names discover_stream_names returns
MaxStreams  == 2    \* streams of the catalog the state is loaded for
MaxCalls    == 2    \* calls made on a State object
MaxPolls    == 1    \* polls of one job that find it pending, short of a timeout

(* Program constants *)
MAX_EXPORT_DAYS     == 30
DEFAULT_JOB_TIMEOUT == 12 * 60 * 60
DEFAULT_POLL_INTERVAL == 60
SecPerDay           == 24 * 60 * 60

(* The clock when the run starts, and the model's clock horizon *)
RunStart == 1000 * SecPerDay + DEFAULT_JOB_TIMEOUT

---------------------------------------------------------------------------
(* Timestamp strings *)

FmtZ(t) == [t |-> t, f |-> "Z"]   \* "%Y-%m-%dT%H:%M:%SZ"
FmtS(t) == [t |-> t, f |-> "S"]   \* "%Y-%m-%d %H:%M:%S"
FmtF(t) == [t |-> t, f |-> "F"]   \* "%Y-%m-%dT%H:%M:%S.%fZ"

parse(v) == v.t

Date(v) == v.t \div SecPerDay

\* Python's a < b on two timestamp strings: the 10-character date decides first,
\* then ' ' < 'T' at position 10, then the time of day, then '.' < 'Z' after the
\* seconds.
StrLess(a, b) ==
    IF Date(a) # Date(b) THEN Date(a) < Date(b)
    ELSE IF (a.f = "S") # (b.f = "S") THEN a.f = "S"
    ELSE IF a.t # b.t THEN a.t < b.t
    ELSE a.f = "F" /\ b.f = "Z"

---------------------------------------------------------------------------
(* The bookmark entry of the stream *)

NoIds   == [k |-> "absent", ids |-> <<>>]
NoneIds == [k |-> "none",   ids |-> <<>>]
ListIds(l) == [k |-> "list", ids |-> l]

Truthy(f) == f.k = "list" /\ f.ids # <<>>

bookmark_of(e) == e.bookmark[1]

\* singer.write_state / write_record / write_schema append one message
\* (stream: the stream a SCHEMA or RECORD is for; st: the value of a STATE;
\* rk: the replication-key value of a RECORD of sync.py)
write_state(o, e)  == Append(o, [type |-> "STATE",  stream |-> 0, st |-> <<e>>, rk |-> <<>>])
write_record(o, v) == Append(o, [type |-> "RECORD", stream |-> 0, st |-> <<>>,  rk |-> v])

States(o)  == SelectSeq(o, LAMBDA m : m.type = "STATE")
Records(o) == SelectSeq(o, LAMBDA m : m.type = "RECORD")
LastState(o) == States(o)[Len(States(o))].st[1]

Min(a, b) == IF a < b THEN a ELSE b


---------------------------------------------------------------------------
(* tap_zuora/sync.py: pure parts *)

\* variant of line 51: file_ids is left in the entry
clear_file_ids_kept(e) == e

\* clear_file_ids: state[...].pop("file_ids", None)
clear_file_ids(e) == [e EXCEPT !.file_ids = NoIds]

\* variant of line 57: the version is left as it is
clear_stateful_session_kept(e, clock) == e

\* clear_stateful_session: version = int(time.time())
clear_stateful_session(e, clock) == [e EXCEPT !.version = clock]

\* variants of line 114: without the comparison, and with <= for <
drop_row_null_only(v, sd) == v = <<>>
drop_row_or_equal(v, sd)  == v = <<>> \/ StrLess(v[1], sd[1]) \/ v[1] = sd[1]
\* variant of line 114 comparing the dates only
drop_row_older_day(v, sd) == v = <<>> \/ Date(v[1]) < Date(sd[1])

\* sync_file_ids, line 114: the row is skipped when its replication key is
\* null/empty or, as a string, less than start_date
drop_row(v, sd) == v = <<>> \/ StrLess(v[1], sd[1])

\* sync_file_ids, line 119: the bookmark becomes the row's replication key
advance_bookmark(e, v) == [e EXCEPT !.bookmark = v]

\* sync_file_ids, lines 130 and 133: what is stored under file_ids after a
\* file, and when the list is used up
after_file(e, ids) == [e EXCEPT !.file_ids = ListIds(ids)]

\* variant without line 133: file_ids is left as the last file left it
after_files_kept(e) == e

after_files(e) == [e EXCEPT !.file_ids = NoneIds]

\* variant of line 163: a job is created whatever state holds
needs_job_always(e) == TRUE

\* sync_aqua_stream, line 163: a job is created when state holds no file ids
needs_job(e) == ~Truthy(e.file_ids)

\* variant of line 169: current_window_end is read with get, not pop
adopt_window_end_kept(e) ==
    IF e.current_window_end # <<>>
    THEN [e EXCEPT !.bookmark = e.current_window_end]
    ELSE e

\* sync_aqua_stream, lines 169-171: current_window_end is popped and, when
\* truthy, becomes the bookmark
adopt_window_end(e) ==
    IF e.current_window_end # <<>>
    THEN [e EXCEPT !.current_window_end = <<>>, !.bookmark = e.current_window_end]
    ELSE e

\* handle_aqua_timeout, lines 142-155.  pendulum durations have microseconds;
\* the instants here are whole seconds, so half of a duration is a whole number
\* of half seconds and strftime's truncation to the second is a floor.
previous_window_end(e, clock) ==
    IF e.current_window_end # <<>> THEN parse(e.current_window_end[1]) ELSE clock

too_large(e, clock) == previous_window_end(e, clock) = parse(bookmark_of(e))

\* variant of lines 151-152: the window end is not moved
unhalved_window_end(e, clock) == FmtZ(previous_window_end(e, clock))

\* variant of lines 151-152: half of the duration is cut to whole seconds
halved_window_end_whole_seconds(e, clock) ==
    LET prev         == previous_window_end(e, clock)
        window_start == parse(bookmark_of(e))
    IN  FmtZ(prev - ((prev - window_start) \div 2))

halved_window_end(e, clock) ==
    LET prev           == previous_window_end(e, clock)
        window_start   == parse(bookmark_of(e))
        half_day_range == (2 * (prev - window_start)) \div 2    \* in half seconds
        window_end     == 2 * prev - half_day_range             \* in half seconds
    IN  FmtZ(window_end \div 2)

handle_aqua_timeout(e, clock) ==
    [e EXCEPT !.current_window_end = <<halved_window_end(e, clock)>>]

\* variant of line 185: the window is not halved
new_window_unhalved(current_window) == current_window

\* handle_rest_timeout, line 185
new_window(current_window) == current_window \div 2

\* sync_rest_stream, lines 243-244
default_window == MAX_EXPORT_DAYS * 86400
pop_window_length(e) == [e EXCEPT !.window_length = <<>>]
window_length_in_seconds(e) ==
    IF e.window_length # <<>> /\ e.window_length[1] # 0
    THEN e.window_length[1] ELSE default_window

\* variant without lines 214-215: the window is not cut at sync_started
end_pen_unclamped(sp, wl, ss) == sp + wl

\* iterate_rest_query_window, lines 213-215
end_pen(sp, wl, ss) == IF sp + wl > ss THEN ss ELSE sp + wl

\* variant without line 225: window_length stays in the entry
after_window_length_kept(e, end) == [e EXCEPT !.bookmark = <<FmtS(end)>>]

\* iterate_rest_query_window, lines 225-226
after_window(e, end) ==
    [e EXCEPT !.window_length = <<>>, !.bookmark = <<FmtS(end)>>]


---------------------------------------------------------------------------
(* The server's side of an export, for a sync followed over an interruption *)

NoSrv == [tracked |-> FALSE, table |-> <<>>, files |-> <<>>, pos |-> 0, run |-> 1,
          exported |-> 0, bookmark |-> <<>>]

\* the rows a job exports.  Batch: those changed since incrementalTime
\* (Aqua.get_payload, apis.py:118-135).  Sync: those the where clause of
\* Rest.get_query selects (apis.py:231-246), rk >= start and rk < end
\* Aqua.get_query, apis.py:111-113, asks for them "order by <replication
\* key> asc" when the stream has a replication key; Rest.get_query asks for no
\* order
order_by_asc(rows) == SortSeq(rows, LAMBDA a, b : parse(a) < parse(b))

exported_rows(table, rest, query, job) ==
    LET rows == SelectSeq(table, LAMBDA r :
                   IF rest THEN job[1] <= parse(r) /\ parse(r) < job[2]
                   ELSE query.incrementalTime = <<>>
                        \/ parse(r) >= parse(query.incrementalTime[1]))
    IN  IF ~rest /\ has_rk THEN order_by_asc(rows) ELSE rows

\* the ways the server cuts the rows into n files: the file of each row,
\* not decreasing along the rows
Cuts(rows, n) ==
    { f \in [1..Len(rows) -> 1..n] :
        \A i \in 1..Len(rows), j \in 1..Len(rows) : i < j => f[i] <= f[j] }

\* the lines of file i under the cut f
file_lines(rows, f, i) ==
    LET before == Cardinality({ j \in 1..Len(rows) : f[j] < i })
        mine   == Cardinality({ j \in 1..Len(rows) : f[j] = i })
    IN  [k \in 1..mine |-> rows[before + k]]

---------------------------------------------------------------------------
(* tap_zuora/sync.py: steps of sync_stream *)

\* the interpreter's limit to the nesting of calls (sys.getrecursionlimit(),
\* 1000 unless set otherwise), and the frames of it that calls other than
\* the nested retries occupy at their deepest: the callers of sync_stream and
\* what the innermost call calls (create_job, poll_job_until_done and the
\* client and libraries below them).  How many these are depends on the
\* installation, so the model takes every number between the two
RecursionLimit == 1000
MinOtherFrames == 22
MaxOtherFrames == 32

NoLast == [act |-> "", rk |-> <<>>, sd |-> <<>>, bm |-> <<>>]

NoPoll == [n |-> 0, status |-> "", message |-> "", raised |-> <<>>]

Fail(e) == pc' = "failed" /\ error' = e

\* entry of sync_file_ids, lines 65-68
EnterFiles(l, st, ids, al, r) ==
    [l EXCEPT !.file_ids = ids, !.aliased = al, !.ret = r, !.cur_file = 0,
              !.start_date = IF has_rk THEN st.bookmark ELSE <<>>]

NoQuery == [incrementalTime |-> <<>>, before |-> <<>>]

\* Aqua.get_payload with Aqua.get_query (apis.py, lines 105-135): the query
\* has no where clause, and incrementalTime is the bookmark
get_payload(st) ==
    [incrementalTime |-> IF has_rk THEN st.bookmark ELSE <<>>,
     before |-> <<>>]

\* create_job answers with the id of a new job (Aqua.create_job and
\* Rest.create_job): it differs from the id of the job before it
next_job_id(id) == 1 - id

\* sync_aqua_stream, lines 162-172, up to the point where it waits for the job
\* or enters sync_file_ids
AquaBody(st, o, h, resps) ==
    IF needs_job(st)
    THEN \E resp \in resps :
            /\ state' = st /\ out' = o /\ loc' = loc
            /\ IF resp = "message"
               THEN Fail("ExportFailed") /\ hist' = h
               ELSE /\ pc' = "poll" /\ error' = error
                    /\ hist' = [h EXCEPT !.jobs = @ + 1, !.job_id = next_job_id(@),
                                         !.pending = @ + 1,
                                         !.query = get_payload(st), !.poll = NoPoll]
    ELSE /\ state' = adopt_window_end(st) /\ out' = o
         /\ loc' = EnterFiles(loc, adopt_window_end(st), st.file_ids.ids, TRUE, "aqua")
         /\ pc' = "file" /\ error' = error /\ hist' = h

\* iterate_rest_query_window, lines 212-220: the loop test and the next job
RestLoop(st, o, l, h) ==
    /\ state' = st /\ out' = o /\ error' = error
    /\ IF l.start_pen < l.sync_started
       THEN /\ pc' = "poll"
            /\ loc' = [l EXCEPT !.ret = "rest_window",
                                !.job = <<l.start_pen,
                                          end_pen(l.start_pen, l.window_length,
                                                  l.sync_started)>>]
            /\ hist' = [h EXCEPT !.jobs = @ + 1, !.job_id = next_job_id(@),
                                 !.pending = @ + 1, !.poll = NoPoll]
       ELSE pc' = "done" /\ loc' = l /\ hist' = h

\* sync_rest_stream, lines 242-262
RestMain(st, o, l, h) ==
    IF has_rk
    THEN RestLoop(pop_window_length(st), o,
                  [l EXCEPT !.window_length = window_length_in_seconds(st),
                            !.sync_started = now,
                            !.start_pen = parse(bookmark_of(st))], h)
    ELSE /\ state' = st /\ out' = o /\ error' = error /\ pc' = "poll"
         /\ loc' = [l EXCEPT !.ret = "rest_full"]
         /\ hist' = [h EXCEPT !.jobs = @ + 1, !.job_id = next_job_id(@),
                              !.pending = @ + 1, !.poll = NoPoll]

\* what Aqua.create_job can answer: a job id, or a body with a "message"
CreateJobResponses == {"id", "message"}

sync_aqua(resps) ==
    /\ prog = "sync_stream" /\ pc = "start" /\ ~is_rest
    /\ AquaBody(state, out, hist, resps)
    /\ UNCHANGED <<prog, mvars, cvars, now, is_rest, has_rk, dvars>>

sync_aqua_stream == sync_aqua(CreateJobResponses)

sync_rest_stream ==
    /\ prog = "sync_stream" /\ pc = "start" /\ is_rest
    /\ IF Truthy(state.file_ids)
       THEN /\ loc' = EnterFiles(loc, state, state.file_ids.ids, TRUE, "rest_resume")
            /\ pc' = "file" /\ UNCHANGED <<state, out, error, hist>>
       ELSE RestMain(state, out, loc, hist)
    /\ UNCHANGED <<prog, mvars, cvars, now, is_rest, has_rk, dvars>>

\* the status a poll is answered with (data["status"] of the batch API,
\* data["Status"] of the sync API)
JobStatuses(rest) ==
    IF rest THEN {"Completed", "Cancelled", "Failed", "Processing"}
    ELSE {"completed", "failed", "aborted", "pending"}

\* the message of an answer that reports the job failed (batches[0].message,
\* StatusReason)
ServerMessages == {"message 1", "message 2"}

\* Aqua.job_ready (apis.py:194-203) and Rest.job_ready (apis.py:260-269):
\* True, False, or the ExportFailed it raises
job_ready(rest, status) ==
    IF rest
    THEN IF status = "Completed" THEN "True"
         ELSE IF status \in {"Cancelled", "Failed"} THEN "ExportFailed"
         ELSE "False"
    ELSE IF status = "completed" THEN "True"
         ELSE IF status = "failed" THEN "ExportFailed"
         ELSE "False"

\* job_ready saw the polled job end (completed, failed or cancelled): it is
\* pending no more
job_ended(h) == [h EXCEPT !.pending = IF @ > 0 THEN @ - 1 ELSE 0]

\* poll_job_until_done, lines 42-45: job_ready answers False and the loop
\* sleeps DEFAULT_POLL_INTERVAL before the next poll
poll_pending ==
    /\ prog = "sync_stream" /\ pc = "poll" /\ hist.poll.n < MaxPolls
    /\ \E status \in JobStatuses(is_rest) :
          /\ job_ready(is_rest, status) = "False"
          /\ hist' = [hist EXCEPT !.poll = [NoPoll EXCEPT !.n = hist.poll.n + 1,
                                                         !.status = status]]
    /\ now' = now + DEFAULT_POLL_INTERVAL
    /\ UNCHANGED <<prog, mvars, cvars, pc, error, out, is_rest, has_rk, state, loc, dvars>>

\* poll_job_until_done, lines 42-43: job_ready answers True and the file ids
\* of the finished job are returned
poll_ready ==
    /\ prog = "sync_stream" /\ pc = "poll"
    /\ \E n \in 1..(IF is_rest THEN 1 ELSE MaxFiles) :
          LET fids == [i \in 1..n |-> i]
              rows == exported_rows(srv.table, is_rest, hist.query, loc.job)
          IN
          /\ IF is_rest
             THEN /\ loc' = EnterFiles(loc, state, fids, FALSE, loc.ret)
                  /\ UNCHANGED <<state, out>>
             ELSE LET st1 == [state EXCEPT !.file_ids = ListIds(fids)]
                      st2 == adopt_window_end(st1)
                  IN  /\ out' = write_state(out, st1)
                      /\ state' = st2
                      /\ loc' = EnterFiles(loc, st2, fids, TRUE, "aqua")
          /\ IF srv.tracked
             THEN \E f \in Cuts(rows, n) :
                     srv' = [srv EXCEPT !.files = [i \in 1..n |-> file_lines(rows, f, i)],
                                        !.exported = IF srv.run = 1 THEN n ELSE @]
             ELSE srv' = srv
    /\ \E status \in JobStatuses(is_rest) :
          /\ job_ready(is_rest, status) = "True"
          /\ hist' = [job_ended(hist) EXCEPT !.poll.status = status]
    /\ pc' = "file"
    /\ UNCHANGED <<prog, disc, load, sobj, cvars, error, now, is_rest, has_rk, dvars>>

\* variant of lines 173 and 228: the handlers catch apis.ExportFailed
caught_export_failed(exc) == exc \in {"ExportTimedOut", "ExportFailed"}

\* sync_aqua_stream, line 173, and iterate_rest_query_window, line 228:
\* except apis.ExportTimedOut (ExportFailed is its base class, apis.py:39-42)
caught(exc) == exc = "ExportTimedOut"

\* variant: the interpreter sets no limit to the nesting of calls
recursion_exceeded_never(depth) == FALSE

\* the retries of lines 179 and 234 are calls of sync_aqua_stream and of
\* iterate_rest_query_window from within themselves: depth counts the nested
\* calls that are open.  The interpreter raises RecursionError when the
\* frames in use pass its limit: with depth nested calls open no further one
\* can run once they and the fewest other frames fill the stack
recursion_exceeded(depth) == depth + MinOtherFrames >= RecursionLimit

\* and the error can be raised within the call at this depth when the nested
\* calls and the most other frames fill it
recursion_may_exceed(depth) == depth + MaxOtherFrames >= RecursionLimit

\* the call of line 179 or 234 with st and o as they are when it is made:
\* the nested call runs and creates its job, or RecursionError is raised
\* where the retry is made; no handler on the way catches it
retry(st, o, h, call) ==
    \/ ~recursion_exceeded(h.depth) /\ call
    \/ /\ recursion_may_exceed(h.depth)
       /\ Fail("RecursionError")
       /\ state' = st /\ out' = o /\ hist' = h /\ loc' = loc

deeper(h) == [h EXCEPT !.depth = @ + 1]

\* the except branches of lines 173-179 and 228-234 with the retry they lead
\* to; the sync driver without a replication key has no handler
handle_timeout(exc, h, resps, clock) ==
    IF ~is_rest
    THEN IF ~has_rk
         THEN retry(state, out, h, AquaBody(state, out, deeper(h), resps))
         ELSE IF too_large(state, clock)
              THEN Fail("ExportTooLarge") /\ hist' = h /\ UNCHANGED <<state, out, loc>>
              ELSE LET st1 == handle_aqua_timeout(state, clock) IN
                   retry(st1, write_state(out, st1), h,
                         AquaBody(st1, write_state(out, st1), deeper(h), resps))
    ELSE IF loc.ret = "rest_window"
         THEN IF new_window(loc.window_length) = 0
              THEN Fail("ExportTooLarge") /\ hist' = h /\ UNCHANGED <<state, out, loc>>
              ELSE LET st1 == [state EXCEPT
                                 !.window_length = <<new_window(loc.window_length)>>]
                   IN  retry(st1, write_state(out, st1), h,
                             RestLoop(st1, write_state(out, st1),
                                      [loc EXCEPT !.window_length = new_window(@)],
                                      deeper(h)))
         ELSE Fail(exc) /\ hist' = h /\ UNCHANGED <<state, out, loc>>

\* a poll reports the job failed or cancelled: job_ready raises ExportFailed
\* with the message of the answer (apis.py:194-203, 260-269)
poll_failed ==
    /\ prog = "sync_stream" /\ pc = "poll"
    /\ \E status \in JobStatuses(is_rest) : \E message \in ServerMessages :
       LET h == [job_ended(hist) EXCEPT !.last = [NoLast EXCEPT !.act = "job_failed"],
                                        !.poll.status = status,
                                        !.poll.message = message,
                                        !.poll.raised = <<message>>] IN
       /\ job_ready(is_rest, status) = "ExportFailed"
       /\ IF caught("ExportFailed")
          THEN handle_timeout("ExportFailed", h, CreateJobResponses, now)
          ELSE Fail("ExportFailed") /\ hist' = h /\ UNCHANGED <<state, out, loc>>
    /\ UNCHANGED <<prog, mvars, cvars, now, is_rest, has_rk, dvars>>

\* poll_job_until_done, lines 40-47: every poll finds the job pending until
\* the clock reaches timeout_time, DEFAULT_JOB_TIMEOUT after the first poll,
\* and ExportTimedOut is raised
timed_out(resps) ==
    /\ prog = "sync_stream" /\ pc = "poll"
    /\ now' = now + DEFAULT_JOB_TIMEOUT - hist.poll.n * DEFAULT_POLL_INTERVAL
    /\ handle_timeout("ExportTimedOut",
                      [hist EXCEPT !.timeouts = @ + 1, !.last = NoLast],
                      resps, now')
    /\ UNCHANGED <<prog, mvars, cvars, is_rest, has_rk, dvars>>

poll_timed_out == timed_out(CreateJobResponses)

\* RecursionError raised within a nested call after it created its job:
\* poll_job_until_done and what it calls need more frames than are left
recursion_error ==
    /\ prog = "sync_stream" /\ pc = "poll"
    /\ hist.depth > 0 /\ recursion_may_exceed(hist.depth)
    /\ Fail("RecursionError")
    /\ UNCHANGED <<prog, mvars, cvars, out, now, svars, dvars>>

poll_timeout == hist.timeouts < MaxTimeouts /\ poll_timed_out

\* the statuses the request for a file is answered with
FileStatuses == {200, 204, 400, 404}

\* the bodies of a 400 that check_for_error tells apart when it reads
\* resp.json().get("Errors", [{"Message": ""}])[0]["Message"] (line 246):
\*   noSuchDataSource  JSON whose first error message holds noSuchDataSource
\*   errors            JSON with another first message, or without Errors
\*   not_json          a body that is no JSON
\*   list              JSON that is a list, no object
\*   no_errors         {"Errors": []}
\*   no_message        a first error without the key Message
\*   null_message      a first error whose Message is null
ResponseBodies == {"noSuchDataSource", "errors", "not_json", "list",
                   "no_errors", "no_message", "null_message"}

\* the exception that reading the message of the body raises ("" for none)
body_raises(body) ==
    CASE body = "not_json"     -> "JSONDecodeError"
      [] body = "list"         -> "AttributeError"
      [] body = "no_errors"    -> "IndexError"
      [] body = "no_message"   -> "KeyError"
      [] body = "null_message" -> "TypeError"
      [] OTHER                 -> ""

\* only the body of a 400 is read
AnswerBodies(status) == IF status = 400 THEN ResponseBodies ELSE {"errors"}

\* variant: a 503 is not retried
raised_for_gateway_only(status) ==
    IF status = 429 THEN "RateLimitException"
    ELSE IF status \in {500, 502, 504} THEN "RetryableException"
    ELSE ""

\* _retryable_request, lines 225-230: the exception raised for a status
\* ("" for none)
raised_for(status) ==
    IF status = 429 THEN "RateLimitException"
    ELSE IF status \in {500, 502, 503, 504} THEN "RetryableException"
    ELSE ""

\* check_for_error, lines 243-251: for a request that is no url check the
\* message of a 400 is read first, which can raise; the call returns when
\* the message holds noSuchDataSource; raise_for_status is called unless
\* the request is a url check
check_for_error(status, url_check, body) ==
    IF url_check THEN ""
    ELSE IF status = 400 /\ body_raises(body) # "" THEN body_raises(body)
    ELSE IF status = 400 /\ body = "noSuchDataSource" THEN ""
    ELSE IF status >= 400 THEN "HTTPError"
    ELSE ""

\* Client._request through _retryable_request and check_for_error
\* (client.py:222-259) for a request that is no url check: the exception a
\* status ends in once backoff has given up ("" for none); _request raises
\* ApiException for any status that check_for_error lets pass and that is
\* not 200
request_raises(status, body) ==
    IF raised_for(status) # "" THEN raised_for(status)
    ELSE IF check_for_error(status, FALSE, body) # ""
    THEN check_for_error(status, FALSE, body)
    ELSE IF status # 200 THEN "ApiException"
    ELSE ""

\* sync_file_ids, line 78: except ApiException (RetryableException is a
\* subclass of it, exceptions.py:19; HTTPError is not)
except_ApiException(exc) == exc \in {"ApiException", "RetryableException"}

\* sync_file_ids, lines 71-90: the next file id is popped and the file opened
stream_file ==
    /\ prog = "sync_stream" /\ pc = "file" /\ loc.file_ids # <<>>
    /\ LET file_id == Head(loc.file_ids)
           rest    == Tail(loc.file_ids)
           st1     == IF loc.aliased THEN [state EXCEPT !.file_ids = ListIds(rest)]
                      ELSE state
           h       == [hist EXCEPT !.streamed = Append(@, file_id), !.last = NoLast]
       IN  \E status \in FileStatuses : \E body \in AnswerBodies(status) :
             LET exc == request_raises(status, body) IN
             /\ loc' = [loc EXCEPT !.file_ids = rest, !.cur_file = file_id]
             /\ hist' = [h EXCEPT !.status = status, !.body = body]
             /\ CASE exc = "" ->
                       /\ state' = st1 /\ pc' = "rows" /\ UNCHANGED <<out, error>>
                  [] except_ApiException(exc) /\ status = 404 ->
                       /\ state' = clear_file_ids(st1)
                       /\ out' = write_state(out, clear_file_ids(st1))
                       /\ Fail("FileIdNotFound")
                  [] OTHER ->
                       /\ state' = st1 /\ out' = out /\ Fail(exc)
    /\ srv' = [srv EXCEPT !.pos = 0]
    /\ UNCHANGED <<prog, disc, load, sobj, cvars, now, is_rest, has_rk, dvars>>

RowTimes == { parse(bookmark_of(hist.state0)) + d : d \in {-1, 0, 1, 2} }
RowKeys  == IF srv.tracked THEN { <<srv.table[i]>> : i \in 1..Len(srv.table) }
            ELSE IF has_rk THEN {<<>>} \cup { <<FmtF(t)>> : t \in RowTimes }
            ELSE {<<>>}

\* sync_file_ids, lines 92-124: one line of the file
read_line ==
    /\ prog = "sync_stream" /\ pc = "rows" /\ hist.rows < MaxRows
    /\ \E kind \in {"empty", "short", "row"} : \E v \in RowKeys :
         LET h == [hist EXCEPT !.rows = @ + 1,
                               !.last = [act |-> kind, rk |-> v, sd |-> loc.start_date,
                                         bm |-> state.bookmark]]
         IN
         /\ kind # "row" => v = <<>>
         /\ IF srv.tracked
            THEN /\ kind = "row" /\ srv.pos < Len(srv.files[loc.cur_file])
                 /\ v = <<srv.files[loc.cur_file][srv.pos + 1]>>
                 /\ srv' = [srv EXCEPT !.pos = @ + 1]
            ELSE srv' = srv
         /\ CASE kind = "empty" ->
                   /\ hist' = h /\ UNCHANGED <<pc, error, state, out>>
              [] kind = "short" ->
                   LET st1 == clear_file_ids(state)
                       st2 == clear_stateful_session(st1, now)
                   IN  /\ state' = st2
                       /\ out' = write_state(write_state(out, st1), st2)
                       /\ hist' = h
                       /\ Fail("NonRectangular")
              [] kind = "row" ->
                   IF has_rk
                   THEN IF drop_row(v, loc.start_date)
                        THEN /\ hist' = [h EXCEPT !.last.act = "dropped",
                                                  !.dropped = @ \cup {v}]
                             /\ UNCHANGED <<pc, error, state, out>>
                        ELSE /\ state' = advance_bookmark(state, v)
                             /\ out' = write_state(write_record(out, v),
                                                   advance_bookmark(state, v))
                             /\ hist' = [h EXCEPT !.last.act = "record"]
                             /\ UNCHANGED <<pc, error>>
                   ELSE /\ out' = write_record(out, v)
                        /\ hist' = [h EXCEPT !.last.act = "record"]
                        /\ UNCHANGED <<pc, error, state>>
    /\ UNCHANGED <<prog, disc, load, sobj, cvars, now, is_rest, has_rk, loc, dvars>>

\* sync_file_ids, lines 126-131: the file is used up
end_file ==
    /\ prog = "sync_stream" /\ pc = "rows"
    /\ srv.tracked => srv.pos = Len(srv.files[loc.cur_file])
    /\ state' = after_file(state, loc.file_ids)
    /\ out' = write_state(out, after_file(state, loc.file_ids))
    /\ loc' = [loc EXCEPT !.aliased = TRUE, !.cur_file = 0]
    /\ hist' = [hist EXCEPT !.last = NoLast]
    /\ pc' = "file"
    /\ UNCHANGED <<prog, mvars, cvars, error, now, is_rest, has_rk, dvars>>

\* the window whose job and file completed (start_pen, end_pen of lines
\* 213-215) with the window_length it was cut with
window_done(l) == [start |-> l.job[1], end |-> l.job[2], length |-> l.window_length]

\* sync_file_ids, lines 133-135, and the caller's code after it returns
files_done ==
    /\ prog = "sync_stream" /\ pc = "file" /\ loc.file_ids = <<>>
    /\ LET st1 == after_files(state)
           o1  == write_state(out, st1)
           h   == [hist EXCEPT !.last = NoLast]
       IN  CASE loc.ret \in {"aqua", "rest_full"} ->
                  /\ state' = st1 /\ out' = o1 /\ pc' = "done" /\ hist' = h
                  /\ UNCHANGED <<error, loc>>
             [] loc.ret = "rest_resume" -> RestMain(st1, o1, loc, h)
             [] loc.ret = "rest_window" ->
                  LET st2 == after_window(st1, loc.job[2]) IN
                  RestLoop(st2, write_state(o1, st2),
                           [loc EXCEPT !.start_pen = loc.job[2],
                                       !.window_length = default_window],
                           [h EXCEPT !.windows = Append(@, window_done(loc))])
    /\ UNCHANGED <<prog, mvars, cvars, now, is_rest, has_rk, dvars>>


---------------------------------------------------------------------------
(* tap_zuora/__init__.py: ZuoraState, ZuoraEntity.sync and ZuoraClient.do_sync *)

EXPORT_DAY_RANGE == 30

MAX_EXPORT_TRIES == 3

MAX_EXPORT_POLLS == 10

EXPORT_SLEEP_INTERVAL == 30

\* ZuoraClient.__init__, line 477: _now_datetime is read from the clock once,
\* when the client is built, and never again
now_datetime == RunStart

config_start_date == FmtZ(RunStart - 31 * SecPerDay)

\* ZuoraClient.now_str: singer.utils.strftime(self._now_datetime)
now_str == FmtF(now_datetime)

\* ZuoraState.stream_state
stream_state(o, c, b) ==
    Append(o, [type |-> "STATE", stream |-> 0, rk |-> <<>>,
               st |-> <<[current_entity |-> c, bookmarks |-> b]>>])

\* ZuoraEntity.get_start_date
get_start_date(b, e) == IF b[e] # <<>> THEN b[e][1] ELSE config_start_date

\* ZuoraClient.get_end_date (ZuoraState.set_state writes a datetime with
\* singer.utils.strftime)
get_end_date(start) ==
    IF parse(start) + EXPORT_DAY_RANGE * 86400 >= now_datetime
    THEN FmtF(now_datetime) ELSE FmtF(parse(start) + EXPORT_DAY_RANGE * 86400)

\* ZuoraState.set_state, line 211: the bookmark only moves forward
state_advances(b, e, when) == b[e] = <<>> \/ StrLess(b[e][1], when)

\* variant of lines 627-631: nothing is skipped
skip_entity_never(st, cur, name) == FALSE

\* do_sync, lines 627-631: entities before the one named by the state are skipped
skip_entity(st, cur, name) == ~st /\ cur # 0 /\ name # cur

\* variant of line 642: current_entity is left as it is
after_entity_kept(name) == name

\* do_sync, line 642: current_entity once the entity is synced (None)
after_entity(name) == 0

\* variant: the schema is written before do_sync's stream_state
begin_entity_schema_first(o, name, b) ==
    stream_state(Append(o, [type |-> "SCHEMA", stream |-> name, st |-> <<>>,
                            rk |-> <<>>]), name, b)

\* ZuoraEntity.sync, line 447, after do_sync's stream_state of line 636
begin_entity(o, name, b) ==
    Append(stream_state(o, name, b),
           [type |-> "SCHEMA", stream |-> name, st |-> <<>>, rk |-> <<>>])

\* variant of line 638: do_sync catches the error and goes on with its loop
sync_raises_caught(e) == pc' = "loop" /\ error' = e

\* do_sync, line 638: entity.sync() is called outside any try, so an exception
\* of the export leaves do_sync
sync_raises(e) == Fail(e)

\* what GET /describe/<entity> is answered with when ZuoraEntity.sync reads
\* self.schema (line 447, _get_definition line 233): ZuoraClient.request
\* raises ApiException for a status other than 200 (lines 518-527)
DescribeAnswers == {"ok", "ApiException"}

\* get_available_entities, lines 562-565, called at the head of do_sync's for
\* loop (line 624): GET /describe lists the entities; ZuoraClient.request
\* raises ApiException for a status other than 200, which leaves do_sync
\* before anything is written
get_available_entities ==
    /\ prog = "do_sync" /\ pc = "get_available_entities"
    /\ \E describe \in DescribeAnswers :
          IF describe = "ok" THEN pc' = "loop" /\ error' = error
          ELSE Fail(describe)
    /\ UNCHANGED <<prog, mvars, cvars, out, now, svars, dvars>>

\* do_sync, lines 626-638: the next entity of the for loop, up to the SCHEMA
\* that ZuoraEntity.sync writes once the entity is described
do_sync_next ==
    /\ prog = "do_sync" /\ pc = "loop"
    /\ IF idx = Len(entities)
       THEN pc' = "done" /\ UNCHANGED <<out, error, dvars>>
       ELSE LET name == idx + 1 IN
            /\ idx' = name
            /\ IF skip_entity(started, current_entity, name)
               THEN UNCHANGED <<pc, out, error, current_entity, started, synced>>
               ELSE /\ started' = TRUE
                    /\ current_entity' = name
                    /\ synced' = Append(synced, name)
                    /\ \E describe \in DescribeAnswers :
                          IF describe = "ok"
                          THEN /\ out' = begin_entity(out, name, bookmarks)
                               /\ pc' = "entity" /\ error' = error
                          ELSE /\ out' = stream_state(out, name, bookmarks)
                               /\ sync_raises(describe)
            /\ UNCHANGED <<bookmarks, entities, input_entity, nrec>>
    /\ UNCHANGED <<prog, mvars, cvars, now, svars>>

\* the legacy tap's two entry points that sync entities
Legacy == prog \in {"do_sync", "do_check"}

\* ZuoraClient.do_check, lines 601-605: ZuoraEntity("Subscription").sync()
\* with no stream_state around it and current_entity left as the state gave
\* it; Subscription is the first entity of the model
do_check ==
    /\ prog = "do_check" /\ pc = "loop"
    /\ idx' = 1
    /\ \E describe \in DescribeAnswers :
          IF describe = "ok"
          THEN /\ out' = Append(out, [type |-> "SCHEMA", stream |-> 1, st |-> <<>>,
                                      rk |-> <<>>])
               /\ pc' = "entity" /\ error' = error
          ELSE out' = out /\ Fail(describe)
    /\ UNCHANGED <<prog, mvars, cvars, now, svars, current_entity, bookmarks, started,
                   entities, input_entity, synced, nrec>>

more_windows == StrLess(get_start_date(bookmarks, idx), now_str)

\* how many answers to the polls of an export are chosen; every later poll
\* finds the job still processing
MaxPollAnswers == 2

\* what a poll of /object/export/{id} is answered: the three kinds of Status,
\* Completed with a FileId that is null, or a status code other than 200
PollAnswers == {"Completed", "Failed", "Processing", "NoFileId", "non200"}

PollAnswerSeqs == UNION { [1..n -> PollAnswers] : n \in 0..MaxPollAnswers }

poll_answer(answers, i) == IF i <= Len(answers) THEN answers[i] ELSE "Processing"

\* ZuoraEntity.get_export, lines 360-402, from the head of the while loop of
\* an attempt: tries (the code's retry) and poll are the code's, polls and sleeps count the GETs
\* and the sleeps of all attempts so far, bad_post is the POST answered with
\* a status other than 200 (0 for none). A job that failed has no file_id,
\* so line 391 takes it for one that timed out; line 399 is never reached.
RECURSIVE export_attempts(_, _, _, _, _, _)
export_attempts(answers, bad_post, tries, poll, polls, sleeps) ==
    LET ends(result, n) == [result |-> result, posts |-> tries + 1,
                            polls |-> n, sleeps |-> sleeps]
        no_file(n) == IF tries < MAX_EXPORT_TRIES
                      THEN export_attempts(answers, bad_post, tries + 1, 0, n, sleeps)
                      ELSE ends("ExportTimedOutException", n)
        answer == poll_answer(answers, polls + 1)
    IN  IF poll = 0 /\ bad_post = tries + 1 THEN ends("ApiException", polls)
        ELSE IF poll >= MAX_EXPORT_POLLS THEN no_file(polls)
        ELSE CASE answer = "non200"    -> ends("ApiException", polls + 1)
               [] answer = "Completed" -> ends("file", polls + 1)
               [] answer = "Failed"    -> no_file(polls + 1)
               [] answer = "NoFileId"  ->
                    export_attempts(answers, bad_post, tries, poll + 1, polls + 1, sleeps)
               [] OTHER                ->
                    export_attempts(answers, bad_post, tries, poll + 1, polls + 1,
                                    sleeps + 1)

\* ZuoraEntity.get_export as a whole: the attempts, then line 405, the GET of
\* /files/{file_id}, which ZuoraClient.request answers with ApiException when
\* the status is not 200
get_export_result(answers, bad_post, file_status) ==
    LET r == export_attempts(answers, bad_post, 0, 0, 0, 0)
    IN  IF r.result = "file" /\ file_status # 200
        THEN [r EXCEPT !.result = "ApiException"] ELSE r

\* every way an export can go: the answers to its polls, the POST that is
\* refused (one of those made, or none) and the status of the file's GET
ExportResults ==
    UNION { { get_export_result(answers, bad_post, file_status) :
                bad_post \in 0..export_attempts(answers, 0, 0, 0, 0, 0).posts,
                file_status \in {200, 404} } :
            answers \in PollAnswerSeqs }

\* ZuoraEntity.gen_records / get_export: the next export is requested, polled
\* and its file fetched; every sleep between two polls moves the clock
get_export ==
    /\ Legacy /\ pc = "entity"
    /\ entities[idx] => more_windows
    /\ \E r \in ExportResults :
          /\ now' = now + r.sleeps * EXPORT_SLEEP_INTERVAL
          /\ IF r.result = "file" THEN pc' = "export" /\ error' = error
             ELSE sync_raises(r.result)
    /\ UNCHANGED <<prog, mvars, cvars, out, svars, dvars>>

\* ZuoraEntity.sync, lines 449-451: one record of the export
gen_record ==
    /\ Legacy /\ pc = "export" /\ nrec < MaxRows
    /\ out' = Append(out, [type |-> "RECORD", stream |-> idx, st |-> <<>>, rk |-> <<>>])
    /\ nrec' = nrec + 1
    /\ UNCHANGED <<prog, mvars, cvars, pc, error, now, svars, current_entity, bookmarks, idx,
                   started, entities, input_entity, synced>>

\* do_sync, lines 640-643: the entity is finished; do_check returns when
\* sync() does
EndEntity(b, o) ==
    /\ bookmarks' = b
    /\ IF prog = "do_check"
       THEN current_entity' = current_entity /\ out' = o /\ pc' = "done"
       ELSE /\ current_entity' = after_entity(idx)
            /\ out' = stream_state(o, after_entity(idx), b)
            /\ pc' = "loop"

\* the export is used up: gen_records line 439 for an entity with an update
\* field, the end of sync() for one without
export_end ==
    /\ Legacy /\ pc = "export"
    /\ IF entities[idx]
       THEN LET when == get_end_date(get_start_date(bookmarks, idx)) IN
            /\ IF state_advances(bookmarks, idx, when)
               THEN /\ bookmarks' = [bookmarks EXCEPT ![idx] = <<when>>]
                    /\ out' = stream_state(out, current_entity,
                                           [bookmarks EXCEPT ![idx] = <<when>>])
               ELSE UNCHANGED <<bookmarks, out>>
            /\ pc' = "entity"
            /\ UNCHANGED current_entity
       ELSE EndEntity(bookmarks, out)
    /\ UNCHANGED <<prog, mvars, cvars, error, now, svars, idx, started, entities, input_entity,
                   synced, nrec>>

\* gen_records' while loop ends: sync() returns
entity_done ==
    /\ Legacy /\ pc = "entity"
    /\ entities[idx] /\ ~more_windows
    /\ EndEntity(bookmarks, out)
    /\ UNCHANGED <<prog, mvars, cvars, error, now, svars, idx, started, entities, input_entity,
                   synced, nrec>>

---------------------------------------------------------------------------
(* tap_zuora/client.py: Client.from_config, Client.__init__, get_access_token *)

\* a config value: the key is absent, holds None, or holds a string
Absent   == [k |-> "absent", v |-> ""]
None     == [k |-> "none",   v |-> ""]
Str(x)   == [k |-> "str",    v |-> x]

NoConfig == [auth_type |-> Absent, sandbox |-> FALSE, european |-> FALSE]

NoClient == [auth_type |-> <<>>, access_token |-> <<>>, base_url |-> <<>>,
             posts |-> <<>>, replies |-> <<>>, probes |-> <<>>, answers |-> <<>>,
             url_check |-> FALSE, body |-> "", statuses |-> <<>>, result |-> "",
             expires |-> <<>>, sent |-> <<>>]

\* URLS, client.py lines 24-32
URLS(sandbox, european) ==
    CASE ~sandbox /\ ~european -> <<"https://rest.na.zuora.com/", "https://rest.zuora.com/">>
      [] sandbox  /\ ~european -> <<"https://rest.sandbox.na.zuora.com/",
                                    "https://rest.apisandbox.zuora.com/">>
      [] ~sandbox /\ european  -> <<"https://rest.eu.zuora.com/">>
      [] sandbox  /\ european  -> <<"https://rest.sandbox.eu.zuora.com/">>

\* from_config, line 116: config.get("auth_type", "BASIC")
config_auth_type(c) == IF c.auth_type.k = "absent" THEN Str("BASIC") ELSE c.auth_type

\* from_config, line 117 (and __init__, lines 99-104)
valid_auth_type(a) == a.k = "str" /\ a.v \in {"BASIC", "OAUTH"}

\* __init__, lines 99-102: OAUTH asks for an access token
wants_token(a) == a.v = "OAUTH"

\* Client.from_config and the beginning of Client.__init__ (lines 90-104)
from_config ==
    /\ prog = "client" /\ pc = "from_config"
    /\ LET a == config_auth_type(config) IN
       IF ~valid_auth_type(a)
       THEN Fail("BadCredentialsException") /\ cli' = cli
       ELSE /\ cli' = [cli EXCEPT !.auth_type = <<a.v>>,
                                   !.access_token = IF wants_token(a) THEN @ ELSE <<None>>]
            /\ pc' = IF wants_token(a) THEN "get_access_token" ELSE "get_url"
            /\ error' = error
    /\ UNCHANGED <<prog, mvars, config, out, now, svars, dvars>>

\* variant: the loop stays at the first base url
next_url_first(urls, done) == urls[1]

\* get_access_token, line 49 (and get_url, line 134): the base url the loop
\* is at
next_url(urls, done) == urls[Len(done) + 1]

\* get_access_token, line 50
token_url(base_url) == base_url \o "oauth/token"

\* the expires_in of a token reply, in seconds; line 61 reads access_token
\* only
ExpiresIn == {90, 3600}

\* what requests.post, raise_for_status and resp.json()["access_token"] end
\* in (lines 58-61): the token; a RequestException (no connection, an error
\* status, a body that is not JSON); a KeyError (a body without the token)
TokenReplies == {"access_token", "RequestException", "KeyError"}

\* get_access_token, lines 62-66: after a failed request the loop goes on, and
\* raises when the list is used up
token_attempts_left(urls, done) == Len(done) < Len(urls)

\* get_access_token, lines 50-66: one pass of the loop, called from __init__
\* (line 102) with URLS[(sandbox, european)]
get_access_token ==
    /\ prog = "client" /\ pc = "get_access_token"
    /\ LET urls  == URLS(config.sandbox, config.european)
           posts == Append(cli.posts, token_url(next_url(urls, cli.posts)))
       IN  \E resp \in TokenReplies : \E expires_in \in ExpiresIn :
             LET c1 == [cli EXCEPT !.posts = posts, !.replies = Append(@, resp)]
             IN
             IF resp = "access_token"
             THEN /\ cli' = [c1 EXCEPT !.access_token = <<Str(resp)>>,
                                       !.expires = <<now + expires_in>>]
                  /\ pc' = "get_url" /\ error' = error
             ELSE IF resp = "KeyError"
             THEN expires_in = 90 /\ cli' = c1 /\ Fail("KeyError")
             ELSE /\ expires_in = 90 /\ cli' = c1
                  /\ IF token_attempts_left(urls, posts)
                     THEN UNCHANGED <<pc, error>>
                     ELSE Fail("BadCredentialsException")
    /\ UNCHANGED <<prog, mvars, config, out, now, svars, dvars>>

---------------------------------------------------------------------------
(* tap_zuora/client.py: Client._retryable_request and Client.get_url *)

\* backoff.on_exception(..., max_tries=5, ...), line 210
max_tries == 5

\* backoff.on_exception(backoff.expo, ..., factor=30, jitter=None), lines
\* 207-213: the seconds slept after the n-th attempt raised
factor == 30

backoff_wait(n) == factor * 2^(n - 1)

\* the seconds slept in a whole call that is answered by seq, attempt by
\* attempt: one wait after every attempt but the last
RECURSIVE backoff_waits_upto(_)
backoff_waits_upto(n) == IF n = 0 THEN 0 ELSE backoff_waits_upto(n - 1) + backoff_wait(n)

backoff_waits(seq) == backoff_waits_upto(Len(seq) - 1)

\* status codes a request is answered with
Statuses == {200, 400, 401, 429, 500, 502, 503, 504}

\* how the n-th attempt ends the call: "" when backoff sends the request
\* again, else the exception that leaves the call or "response"
attempt_result(status, n, url_check, body) ==
    IF raised_for(status) # ""
    THEN IF n < max_tries THEN "" ELSE raised_for(status)
    ELSE IF check_for_error(status, url_check, body) # ""
         THEN check_for_error(status, url_check, body)
         ELSE "response"

\* one attempt of _retryable_request (lines 222-232) under backoff
retryable_request ==
    /\ prog = "client" /\ pc = "request"
    /\ \E status \in Statuses : \E body \in AnswerBodies(status) :
         LET sent == Append(cli.statuses, status)
             r    == attempt_result(status, Len(sent), cli.url_check, body)
         IN  /\ cli' = [cli EXCEPT !.statuses = sent, !.result = r, !.body = body]
             /\ IF r = ""
                THEN now' = now + backoff_wait(Len(sent)) /\ UNCHANGED <<pc, error>>
                ELSE IF r = "response"
                THEN now' = now /\ pc' = "done" /\ error' = error
                ELSE now' = now /\ Fail(r)
    /\ UNCHANGED <<prog, mvars, config, out, svars, dvars>>

\* the answers a whole call of _retryable_request can receive, attempt by
\* attempt, in get_url
ProbeStatuses == {200, 400, 401, 503}

Complete(seq, url_check) ==
    /\ \A i \in 1..(Len(seq) - 1) : attempt_result(seq[i], i, url_check, "errors") = ""
    /\ attempt_result(seq[Len(seq)], Len(seq), url_check, "errors") # ""

ProbeAnswers(url_check) ==
    { seq \in UNION { [1..n -> ProbeStatuses] : n \in {1, max_tries} } :
        Complete(seq, url_check) }

\* how a whole call ends that is answered by seq, the last answer with body
request_result(seq, url_check, body) ==
    attempt_result(seq[Len(seq)], Len(seq), url_check, body)

\* variant: a 400 moves on to the next prefix as well
rejected_or_bad_request(status) == status \in {400, 401}

\* get_url, lines 164-167: a 401 moves on to the next prefix
rejected(status) == status = 401

\* what the body of a 200 answer to the AQuA probe holds (lines 147-162): an
\* id, an errorCode, JSON with neither, or no JSON
ProbeBodies == {"id", "errorCode", "no_id", "not_json"}

\* get_url, lines 147-161, on the body of the 200 answer: the exception
\* raised before the DELETE ("" for none)
probe_body_raises(body) ==
    CASE body = "not_json"  -> "JSONDecodeError"
      [] body = "errorCode" -> "Exception"
      [] body = "no_id"     -> "KeyError"
      [] OTHER              -> ""

\* get_url, lines 134-174: one pass of the loop over the prefixes.  The
\* probe is a url check; the DELETE of line 163 is none, so that
\* check_for_error reads the body of a 400 and lets noSuchDataSource pass
get_url ==
    /\ prog = "client" /\ pc = "get_url"
    /\ LET urls   == URLS(config.sandbox, config.european)
           prefix == next_url(urls, cli.probes)
           probes == Append(cli.probes, prefix)
       IN  \E seq \in ProbeAnswers(TRUE) :
           LET status == seq[Len(seq)]
               probe  == request_result(seq, TRUE, "errors")
               read   == probe = "response" /\ ~is_rest /\ status = 200
           IN
           \E body \in (IF read THEN ProbeBodies ELSE {"id"}) :
           LET deleted == read /\ probe_body_raises(body) = "" IN
           \E del \in (IF deleted THEN ProbeAnswers(FALSE) ELSE {<<200>>}) :
           \E dbody \in AnswerBodies(del[Len(del)]) :
             LET c1 == [cli EXCEPT !.probes = probes,
                                   !.answers = Append(@, status),
                                   !.body = dbody,
                                   !.result = "response"]
                 delete == request_result(del, FALSE, dbody)
             IN
             /\ now' = now + backoff_waits(seq)
                           + (IF deleted THEN backoff_waits(del) ELSE 0)
             /\ IF probe # "response"
                THEN /\ cli' = [c1 EXCEPT !.result = probe]
                     /\ Fail(probe)
                ELSE IF read /\ probe_body_raises(body) # ""
                THEN /\ cli' = [c1 EXCEPT !.result = probe_body_raises(body)]
                     /\ Fail(probe_body_raises(body))
                ELSE IF deleted /\ delete # "response"
                THEN /\ cli' = [c1 EXCEPT !.result = delete]
                     /\ Fail(delete)
                ELSE IF rejected(status)
                     THEN /\ cli' = c1
                          /\ IF Len(probes) < Len(urls)
                             THEN UNCHANGED <<pc, error>>
                             ELSE Fail("BadCredentialsException")
                     ELSE /\ cli' = [c1 EXCEPT !.base_url = <<prefix>>]
                          /\ pc' = "done" /\ error' = error
    /\ UNCHANGED <<prog, mvars, config, out, svars, dvars>>

\* aqua_headers and rest_headers, lines 176-203: a truthy access_token is
\* sent as a bearer token, else the key id and secret are sent
headers(c) ==
    IF c.access_token # <<>> /\ c.access_token[1].k = "str" /\ c.access_token[1].v # ""
    THEN "Bearer" ELSE "apiAccessKeyId"

\* seconds the token has left at the clock (0 for an expired one)
seconds_left(c, clock) ==
    IF c.expires = <<>> \/ c.expires[1] <= clock THEN 0 ELSE c.expires[1] - clock

\* aqua_request / rest_request, lines 262-270: a request of the constructed
\* client is sent with the headers its attributes give; the caller then lets
\* time pass (poll_job_until_done sleeps DEFAULT_POLL_INTERVAL between polls)
Request ==
    /\ prog = "client" /\ pc = "done" /\ cli.base_url # <<>>
    /\ Len(cli.sent) < MaxRequests
    /\ cli' = [cli EXCEPT !.sent = Append(@, [authorization |-> headers(cli),
                                               left |-> seconds_left(cli, now)])]
    /\ \E wait \in {0, DEFAULT_POLL_INTERVAL} : now' = now + wait
    /\ UNCHANGED <<prog, mvars, pc, error, config, out, svars, dvars>>

aqua_request == ~is_rest /\ Request

rest_request == is_rest /\ Request

---------------------------------------------------------------------------
(* tap_zuora/discover.py: discover_streams, with Client._request and         *)
(* stream_status of tap_zuora/apis.py                                        *)

NoFields == [fields |-> <<>>, related |-> {}]

NoProbe == [describe |-> "", status |-> 0, nsd |-> FALSE, body |-> "",
            xml |-> NoFields]

NoDisc == [names |-> <<>>, pos |-> 0, streams |-> <<>>, failed |-> <<>>,
           last |-> NoProbe, listing |-> ""]

\* the answers to one request of discovery, attempt by attempt: one answer,
\* or 503 on every attempt
DiscoveryAnswers == {<<200>>, <<204>>, <<400>>, <<401>>, [i \in 1..max_tries |-> 503]}

\* Client._request, lines 253-260: the request is made with url_check False
\* and a response with a status other than 200 raises ApiException
request(seq, body) ==
    LET r == attempt_result(seq[Len(seq)], Len(seq), FALSE, body)
    IN  IF r = "response" /\ seq[Len(seq)] # 200 THEN "ApiException" ELSE r

\* exceptions.py: RetryableException is an ApiException
is_ApiException(r) == r \in {"ApiException", "RetryableException"}

\* discover.py, lines 21-25 and 67
REQUIRED_KEYS == {"Id", "UpdatedDate", "TransactionDate", "UpdatedOn"}

\* the field elements a describe answer lists, in order (name, and whether
\* "export" is among its contexts), and the names of its related objects
FieldNames == {"Id", "UpdatedDate", "Name"}

DescribeBodies ==
    { [fields |-> <<[name |-> n1, export |-> e1], [name |-> n2, export |-> e2]>>,
       related |-> r] :
         n1 \in FieldNames, n2 \in FieldNames, e1 \in BOOLEAN, e2 \in BOOLEAN,
         r \in {{}, {"Account"}} }

\* get_field_dict, lines 90-128: the keys of field_dict.  The first loop
\* empties the dict and stops at a required key without the export context
\* (lines 101-106) and skips other fields without it (lines 109-111); the
\* second loop (lines 119-126) adds "<related object>.Id" in either case
get_field_dict(xml) ==
    LET n == Len(xml.fields)
        unexportable == { i \in 1..n : /\ ~xml.fields[i].export
                                       /\ xml.fields[i].name \in REQUIRED_KEYS }
        own == IF unexportable # {} THEN {}
               ELSE { [name |-> xml.fields[i].name, joined |-> FALSE] :
                         i \in { j \in 1..n : xml.fields[j].export } }
    IN  own \cup { [name |-> r, joined |-> TRUE] : r \in xml.related }

\* discover_stream, lines 154-155: an empty field_dict leaves the object out
described(xml) == IF get_field_dict(xml) = {} THEN "no_fields" ELSE "fields"

\* what the body of a 200 answer to the availability probe says
\* (apis.py, lines 183-191 and 294-298)
StatusBodies(rest) ==
    IF rest THEN {"Success", "no_Success", "no_key", "not_json"}
    ELSE {"id", "SYNTAX_ERROR", "NO_DELETED_SUPPORT", "message", "no_id", "not_json"}

\* what reading the body raises before anything is decided: resp.json() on
\* a body that is no JSON, resp['id'] of the DELETE (apis.py:185) on an AQuA
\* body without id, whatever message it has, resp["Success"] on a REST body
\* without that key ("" for none)
status_body_raises(rest, body) ==
    CASE body = "not_json"        -> "JSONDecodeError"
      [] ~rest /\ body = "no_id"  -> "KeyError"
      [] rest /\ body = "no_key"  -> "KeyError"
      [] OTHER                    -> ""

\* Aqua.stream_status / Rest.stream_status on the body of the 200 answer
stream_status(rest, body) ==
    IF rest THEN (IF body = "Success" THEN "available" ELSE "unavailable")
    ELSE CASE body = "SYNTAX_ERROR"       -> "unavailable"
           [] body = "NO_DELETED_SUPPORT" -> "available"
           [] body = "message"            -> "Exception"
           [] OTHER                       -> "available_with_deleted"

\* the object names the listing of v1/describe can hold, in order
NameLists == { [i \in 1..n |-> i] : n \in 0..MaxObjects }

\* discover_stream_names, lines 135-138, called at the head of the loop of
\* discover_streams (line 237): the request of the listing; an error of the
\* request leaves discover_streams, and an empty listing ends the loop
discover_stream_names ==
    /\ prog = "discover" /\ pc = "discover_stream_names"
    /\ \E seq \in DiscoveryAnswers, names \in NameLists :
      \E body \in AnswerBodies(seq[Len(seq)]) :
         /\ now' = now + backoff_waits(seq)
         /\ IF request(seq, body) # "response"
            THEN /\ names = <<>>
                 /\ disc' = [disc EXCEPT !.listing = request(seq, body)]
                 /\ Fail(request(seq, body))
            ELSE /\ disc' = [disc EXCEPT !.names = names, !.listing = "response"]
                 /\ pc' = (IF names = <<>> THEN "done" ELSE "discover")
                 /\ error' = error
    /\ UNCHANGED <<prog, load, sobj, srv, cvars, out, svars, dvars>>

\* the bodies the last answer of seq can have for check_for_error
SeqBodies(seq) == AnswerBodies(seq[Len(seq)])

\* the describe answers with two fields of different names
DescribeAnswerBodies == { x \in DescribeBodies : x.fields[1].name # x.fields[2].name }

\* discover_streams, lines 237-243, with discover_stream (lines 148-231):
\* one pass of the loop
discover_stream ==
    /\ prog = "discover" /\ pc = "discover" /\ disc.pos < Len(disc.names)
    /\ LET name == disc.names[disc.pos + 1]
           left_out(d) == [d EXCEPT !.pos = @ + 1, !.failed = Append(@, name)]
           kept(d)     == [d EXCEPT !.pos = @ + 1, !.streams = Append(@, name)]
           ends(d)     == IF d.pos = Len(d.names) THEN "done" ELSE "discover"
       IN  \E dseq \in DiscoveryAnswers : \E dans \in SeqBodies(dseq) :
             IF request(dseq, dans) # "response"
             THEN \* get_field_dict's request raised (lines 150-153)
                  LET describe == request(dseq, dans)
                      d1 == [disc EXCEPT !.last = [NoProbe EXCEPT !.describe = describe]]
                  IN  /\ now' = now + backoff_waits(dseq)
                      /\ IF is_ApiException(describe)
                         THEN /\ disc' = left_out(d1)
                              /\ pc' = ends(left_out(d1)) /\ error' = error
                         ELSE disc' = d1 /\ Fail(describe)
             ELSE \E dbody \in DescribeAnswerBodies :
                  IF described(dbody) = "no_fields"
                  THEN LET d1 == [disc EXCEPT !.last = [NoProbe EXCEPT
                                                          !.describe = "no_fields",
                                                          !.xml = dbody]]
                       IN  /\ now' = now + backoff_waits(dseq)
                           /\ disc' = left_out(d1)
                           /\ pc' = ends(left_out(d1)) /\ error' = error
                  ELSE \E pseq \in DiscoveryAnswers : \E pans \in SeqBodies(pseq) :
                       LET probe == request(pseq, pans)
                           d2(pbody) == [disc EXCEPT !.last =
                                           [describe |-> "fields", xml |-> dbody,
                                            status |-> pseq[Len(pseq)],
                                            nsd |-> (pseq[Len(pseq)] = 400
                                                     /\ pans = "noSuchDataSource"),
                                            body |-> pbody]]
                           no_body == IF is_rest THEN "Success" ELSE "id"
                       IN
                       IF probe # "response"
                       THEN /\ now' = now + backoff_waits(dseq) + backoff_waits(pseq)
                            /\ disc' = d2(no_body) /\ Fail(probe)
                       ELSE \E pbody \in StatusBodies(is_rest) :
                            LET deleted == ~is_rest /\ status_body_raises(is_rest, pbody) = ""
                            IN
                            \E del \in (IF deleted THEN DiscoveryAnswers ELSE {<<200>>}) :
                            \E delans \in SeqBodies(del) :
                              /\ now' = now + backoff_waits(dseq) + backoff_waits(pseq)
                                            + (IF deleted THEN backoff_waits(del) ELSE 0)
                              /\ IF status_body_raises(is_rest, pbody) # ""
                                 THEN /\ disc' = d2(pbody)
                                      /\ Fail(status_body_raises(is_rest, pbody))
                                 ELSE IF request(del, delans) # "response"
                                 THEN disc' = d2(pbody) /\ Fail(request(del, delans))
                                 ELSE IF stream_status(is_rest, pbody) = "Exception"
                                 THEN disc' = d2(pbody) /\ Fail("Exception")
                                 ELSE IF stream_status(is_rest, pbody) = "unavailable"
                                 THEN /\ disc' = left_out(d2(pbody))
                                      /\ pc' = ends(left_out(d2(pbody))) /\ error' = error
                                 ELSE /\ disc' = kept(d2(pbody))
                                      /\ pc' = ends(kept(d2(pbody))) /\ error' = error
    /\ UNCHANGED <<prog, load, sobj, srv, cvars, out, svars, dvars>>

---------------------------------------------------------------------------
(* State Manager: migration of a legacy state and validation on load.       *)
(* Streams are named 1, 2, ...; a state maps the names it may hold to an     *)
(* optional value (<<>> for a missing key), current_stream 0 is null.        *)

NoLoad == [catalog |-> <<>>, input |-> <<>>, result |-> <<>>]

\* the names a state may hold: those of the catalog and one more
StateNames(catalog) == 1..(Len(catalog) + 1)

in_catalog(catalog, name) == name \in 1..Len(catalog)

selected(catalog, name) == in_catalog(catalog, name) /\ catalog[name].selected

\* an entry of bookmarks: version and the replication key's value
bookmark_entry(version, value) == [version |-> version, replication_key |-> value]

\* variant: no legacy key is carried over
convert_legacy_state_empty(catalog, st) ==
    [bookmarks |-> [name \in StateNames(catalog) |-> <<>>], current_stream |-> 0]

\* the value of a legacy key is a date or a mapping {replication_key: date}
is_date(value) == "t" \in DOMAIN value

\* a mapping {replication_key: date} taken as an entry of bookmarks
mapping_entry(value) == bookmark_entry(<<>>, value.replication_key)

\* a legacy flat state becomes the two-level layout: a top-level key whose
\* name matches a selected stream with a replication key becomes
\* bookmarks[name][replication_key] when its value is a date, and
\* bookmarks[name] when its value is a mapping already
\* (test_with_one_stream_in_state_file); other keys are not carried over,
\* current_stream is
convert_legacy_state(catalog, st) ==
    [bookmarks |->
        [name \in StateNames(catalog) |->
            IF /\ selected(catalog, name) /\ catalog[name].incremental
               /\ st.keys[name] # <<>>
            THEN IF is_date(st.keys[name][1])
                 THEN <<bookmark_entry(<<>>, st.keys[name])>>
                 ELSE <<mapping_entry(st.keys[name][1])>>
            ELSE <<>>],
     current_stream |-> st.current_stream]

\* variant: an entry is created for every stream of the catalog
validate_state_all_streams(start_date, catalog, st, clock) ==
    [bookmarks |->
        [name \in StateNames(catalog) |->
            IF in_catalog(catalog, name) /\ st.bookmarks[name] = <<>>
            THEN <<bookmark_entry(<<clock>>, <<start_date>>)>>
            ELSE st.bookmarks[name]],
     current_stream |->
        IF in_catalog(catalog, st.current_stream)
           /\ ~selected(catalog, st.current_stream)
        THEN 0 ELSE st.current_stream]

\* validation on load: a selected stream without a bookmark gets
\* {version: now, replication_key: config.start_date}; a current_stream that
\* names an unselected stream is cleared
validate_state(start_date, catalog, st, clock) ==
    [bookmarks |->
        [name \in StateNames(catalog) |->
            IF selected(catalog, name) /\ st.bookmarks[name] = <<>>
            THEN <<bookmark_entry(<<clock>>, <<start_date>>)>>
            ELSE st.bookmarks[name]],
     current_stream |->
        IF in_catalog(catalog, st.current_stream)
           /\ ~selected(catalog, st.current_stream)
        THEN 0 ELSE st.current_stream]

\* the legacy state is migrated
migrate_state ==
    /\ prog = "load" /\ pc = "convert_legacy_state"
    /\ load' = [load EXCEPT !.result = <<convert_legacy_state(load.catalog, load.input)>>]
    /\ pc' = "done"
    /\ UNCHANGED <<prog, error, out, now, svars, dvars, cvars, disc, sobj, srv>>

\* the state is validated against the catalog and the config
check_state ==
    /\ prog = "load" /\ pc = "validate_state"
    /\ load' = [load EXCEPT !.result =
                  <<validate_state(config_start_date, load.catalog, load.input, now)>>]
    /\ pc' = "done"
    /\ UNCHANGED <<prog, error, out, now, svars, dvars, cvars, disc, sobj, srv>>

Catalogs ==
    UNION { [1..n -> [selected : BOOLEAN, incremental : BOOLEAN]] : n \in 1..MaxStreams }

\* the values a legacy state holds for a name: none, a date, or a mapping
\* of the replication key to a date
LegacyValues == {<<>>, <<FmtZ(RunStart - 2)>>,
                 <<[replication_key |-> <<FmtZ(RunStart - 2)>>]>>}

StoredEntries == {<<>>, <<bookmark_entry(<<1>>, <<FmtZ(RunStart - 2)>>)>>}

---------------------------------------------------------------------------
(* tap_zuora/state.py: State, and Entity.update_bookmark of entity.py *)

NoKeys == [present |-> FALSE, version |-> <<>>, bookmark |-> <<>>, file_ids |-> NoIds]

NoCall == [op |-> "", entity |-> 0, arg |-> <<>>, ret |-> <<>>, raised |-> FALSE]

\* the entities the calls are made for: one with a replication key, one
\* without
StateEntities == { [name |-> 1, replication_key |-> TRUE],
                   [name |-> 2, replication_key |-> FALSE] }

\* get_entity_state, lines 17-21: a missing name gets an empty dict
get_entity_state(b, entity) == [b EXCEPT ![entity.name].present = TRUE]

\* variant of lines 31-32: the version is assigned on every call
get_version_always_new(b, entity, clock) ==
    [bookmarks |-> [get_entity_state(b, entity) EXCEPT ![entity.name].version = <<clock>>],
     ret |-> <<clock>>, raised |-> FALSE]

\* get_version, lines 23-34
get_version(b, entity, clock) ==
    LET b1 == get_entity_state(b, entity)
        b2 == IF b1[entity.name].version = <<>>
              THEN [b1 EXCEPT ![entity.name].version = <<clock>>]
              ELSE b1
    IN  [bookmarks |-> b2, ret |-> b2[entity.name].version, raised |-> FALSE]

\* get_bookmark, lines 36-40
get_bookmark(b, dflt, entity) ==
    IF ~entity.replication_key
    THEN [bookmarks |-> b, ret |-> <<>>, raised |-> TRUE]
    ELSE LET b1 == get_entity_state(b, entity) IN
         [bookmarks |-> b1,
          ret |-> IF b1[entity.name].bookmark # <<>> THEN b1[entity.name].bookmark
                  ELSE dflt,
          raised |-> FALSE]

\* variant of line 46: the bookmark is stored whatever the stored one is
set_bookmark_unconditional(b, dflt, entity, bookmark) ==
    IF ~entity.replication_key
    THEN [bookmarks |-> b, ret |-> <<>>, raised |-> TRUE]
    ELSE [bookmarks |-> [get_entity_state(b, entity) EXCEPT
                            ![entity.name].bookmark = <<bookmark>>],
          ret |-> <<>>, raised |-> FALSE]

\* set_bookmark, lines 42-47: bookmark > self.get_bookmark(entity) compares
\* two strings
set_bookmark(b, dflt, entity, bookmark) ==
    IF ~entity.replication_key
    THEN [bookmarks |-> b, ret |-> <<>>, raised |-> TRUE]
    ELSE LET cur == get_bookmark(b, dflt, entity) IN
         [bookmarks |-> IF StrLess(cur.ret[1], bookmark)
                        THEN [get_entity_state(cur.bookmarks, entity) EXCEPT
                                 ![entity.name].bookmark = <<bookmark>>]
                        ELSE cur.bookmarks,
          ret |-> <<>>, raised |-> FALSE]

\* get_file_ids, lines 49-50: .get("file_ids", [])
get_file_ids(b, entity) ==
    LET b1 == get_entity_state(b, entity) IN
    [bookmarks |-> b1,
     ret |-> IF b1[entity.name].file_ids.k = "absent" THEN <<ListIds(<<>>)>>
             ELSE <<b1[entity.name].file_ids>>,
     raised |-> FALSE]

\* set_file_ids, lines 52-53
set_file_ids(b, entity, file_ids) ==
    [bookmarks |-> [get_entity_state(b, entity) EXCEPT ![entity.name].file_ids = file_ids],
     ret |-> <<>>, raised |-> FALSE]

\* Entity.update_bookmark, entity.py lines 76-78
update_bookmark(b, dflt, entity, bookmark) ==
    IF entity.replication_key /\ StrLess(get_bookmark(b, dflt, entity).ret[1], bookmark)
    THEN set_bookmark(get_bookmark(b, dflt, entity).bookmarks, dflt, entity, bookmark)
    ELSE [bookmarks |-> IF entity.replication_key
                        THEN get_bookmark(b, dflt, entity).bookmarks ELSE b,
          ret |-> <<>>, raised |-> FALSE]

\* the bookmark values given to the calls
BookmarkValues == { [t |-> RunStart + d, f |-> fmt] : d \in {-1, 0, 1}, fmt \in {"Z", "S", "F"} }

\* the list of file ids the caller holds a reference to: stored_in are the
\* entities whose stored file_ids is this very list object, so that a change
\* made through the reference is a change of their entries
NoHeld == [obj |-> NoIds, stored_in |-> {}]

\* one call on the State object; a second passes between two calls.  held
\* and same are the references after the call: same tells that the file_ids
\* stored for the two entities are one list object
Called(op, entity, arg, r, held, same) ==
    /\ prog = "state" /\ sobj.calls < MaxCalls
    /\ sobj' = [sobj EXCEPT !.bookmarks = r.bookmarks, !.calls = @ + 1,
                            !.last = [op |-> op, entity |-> entity.name, arg |-> arg,
                                      ret |-> r.ret, raised |-> r.raised],
                            !.held = held, !.same = same]
    /\ now' = now + 1
    /\ UNCHANGED <<prog, pc, error, out, svars, dvars, cvars, disc, load, srv>>

call_get_version ==
    \E entity \in StateEntities :
       Called("get_version", entity, <<>>, get_version(sobj.bookmarks, entity, now),
              sobj.held, sobj.same)

call_get_bookmark ==
    \E entity \in StateEntities :
       Called("get_bookmark", entity, <<>>,
              get_bookmark(sobj.bookmarks, sobj.default_start_date, entity),
              sobj.held, sobj.same)

call_set_bookmark ==
    \E entity \in StateEntities : \E v \in BookmarkValues :
       Called("set_bookmark", entity, <<v>>,
              set_bookmark(sobj.bookmarks, sobj.default_start_date, entity, v),
              sobj.held, sobj.same)

call_update_bookmark ==
    \E entity \in StateEntities : \E v \in BookmarkValues :
       Called("update_bookmark", entity, <<v>>,
              update_bookmark(sobj.bookmarks, sobj.default_start_date, entity, v),
              sobj.held, sobj.same)

\* the lists of file ids given to set_file_ids
FileIdLists == {ListIds(<<>>), ListIds(<<2, 1>>)}

\* get_file_ids returns the list stored for the entity itself, no copy of
\* it, and the caller holds it from then on; with no file_ids stored the
\* default of .get is a new list that is stored nowhere
call_get_file_ids ==
    \E entity \in StateEntities :
       LET r == get_file_ids(sobj.bookmarks, entity) IN
       Called("get_file_ids", entity, <<>>, r,
              IF sobj.bookmarks[entity.name].file_ids.k = "absent"
              THEN [obj |-> r.ret[1], stored_in |-> {}]
              ELSE [obj |-> r.ret[1],
                    stored_in |-> IF sobj.same THEN {1, 2} ELSE {entity.name}],
              sobj.same)

\* set_file_ids stores the list it is given, no copy of it: a new list, which
\* the caller holds from then on, or the list the caller holds already
\* (streamer.py:54 and 66)
call_set_file_ids ==
    \E entity \in StateEntities :
       \/ \E ids \in FileIdLists :
             Called("set_file_ids", entity, <<ids>>,
                    set_file_ids(sobj.bookmarks, entity, ids),
                    [obj |-> ids, stored_in |-> {entity.name}], FALSE)
       \/ /\ sobj.held.obj.k = "list"
          /\ Called("set_file_ids", entity, <<sobj.held.obj>>,
                    set_file_ids(sobj.bookmarks, entity, sobj.held.obj),
                    [sobj.held EXCEPT !.stored_in = @ \cup {entity.name}],
                    sobj.held.stored_in \cup {entity.name} = {1, 2})

\* AquaStreamer.gen_records, streamer.py:57: file_ids.pop(0) on the list the
\* caller holds takes the id from every entry that stores this list
pop_file_id ==
    /\ prog = "state"
    /\ sobj.held.obj.k = "list" /\ sobj.held.obj.ids # <<>>
    /\ LET popped == ListIds(Tail(sobj.held.obj.ids)) IN
       sobj' = [sobj EXCEPT
                  !.held.obj = popped,
                  !.bookmarks = [n \in {1, 2} |->
                                   IF n \in sobj.held.stored_in
                                   THEN [sobj.bookmarks[n] EXCEPT !.file_ids = popped]
                                   ELSE sobj.bookmarks[n]]]
    /\ UNCHANGED <<prog, pc, error, out, now, svars, dvars, cvars, disc, load, srv>>

NoState == [bookmarks |-> [n \in {1, 2} |-> NoKeys], default_start_date |-> <<>>,
            calls |-> 0, last |-> NoCall, held |-> NoHeld, same |-> FALSE]

---------------------------------------------------------------------------
(* Initial states *)

Offsets == {0, 2, 31 * SecPerDay}

InitEntries(rest, rk) ==
    IF ~rk
    THEN { [version |-> 1, bookmark |-> <<>>, file_ids |-> f,
            current_window_end |-> <<>>, window_length |-> <<>>] :
           f \in {NoIds, NoneIds, ListIds(<<2, 1>>)} }
    ELSE UNION { { [version |-> 1, bookmark |-> <<[t |-> RunStart - off, f |-> fmt]>>,
                     file_ids |-> f, current_window_end |-> w, window_length |-> wl] :
                    fmt \in (IF rest THEN {"Z", "S", "F"} ELSE {"Z", "F"}),
                    f \in {NoIds, NoneIds, ListIds(<<2, 1>>)},
                    w \in (IF rest \/ off = 0 THEN {<<>>}
                           ELSE {<<>>, <<FmtZ(RunStart - off + 1)>>}),
                    wl \in (IF rest THEN {<<>>, <<1>>} ELSE {<<>>}) } :
                 off \in Offsets }

InitLoc == [file_ids |-> <<>>, aliased |-> FALSE, start_date |-> <<>>, ret |-> "",
            cur_file |-> 0, start_pen |-> 0, sync_started |-> 0,
            window_length |-> 0, job |-> <<0, 0>>]

InitHist(e) == [state0 |-> e, jobs |-> 0, pending |-> 0, timeouts |-> 0, rows |-> 0,
                dropped |-> {}, windows |-> <<>>, job_id |-> 0, status |-> 0, body |-> "",
                depth |-> 0,
                streamed |-> <<>>, last |-> NoLast, query |-> NoQuery, poll |-> NoPoll]

NoEntry == [version |-> 0, bookmark |-> <<>>, file_ids |-> NoIds,
            current_window_end |-> <<>>, window_length |-> <<>>]

InitStream ==
    /\ prog = "sync_stream" /\ pc = "start"
    /\ is_rest \in BOOLEAN /\ has_rk \in BOOLEAN
    /\ state \in InitEntries(is_rest, has_rk)
    /\ loc = InitLoc /\ hist = InitHist(state)
    /\ current_entity = 0 /\ bookmarks = <<>> /\ idx = 0 /\ started = FALSE
    /\ entities = <<>> /\ input_entity = 0 /\ synced = <<>> /\ nrec = 0
    /\ config = NoConfig /\ cli = NoClient /\ disc = NoDisc /\ load = NoLoad /\ sobj = NoState /\ srv = NoSrv

InitRun ==
    /\ \/ prog = "do_sync" /\ pc = "get_available_entities"
       \/ prog = "do_check" /\ pc = "loop"
    /\ is_rest = FALSE /\ has_rk = FALSE /\ state = NoEntry
    /\ loc = InitLoc /\ hist = InitHist(NoEntry)
    /\ \E n \in 0..MaxEntities : entities \in [1..n -> BOOLEAN]
    /\ prog = "do_check" => Len(entities) >= 1
    /\ bookmarks \in [1..Len(entities) ->
                        {<<>>, <<FmtF(RunStart - 2)>>, <<FmtF(RunStart)>>}]
    /\ \A e \in 1..Len(entities) : ~entities[e] => bookmarks[e] = <<>>
    /\ input_entity \in 0..(Len(entities) + 1)
    /\ current_entity = input_entity
    /\ idx = 0 /\ started = FALSE /\ synced = <<>> /\ nrec = 0
    /\ config = NoConfig /\ cli = NoClient /\ disc = NoDisc /\ load = NoLoad /\ sobj = NoState /\ srv = NoSrv

AuthTypes == {Absent, None, Str(""), Str("Basic"), Str("BASIC"), Str("OAuth"),
              Str("OAUTH")}

InitClient ==
    /\ prog = "client" /\ disc = NoDisc /\ load = NoLoad /\ sobj = NoState /\ srv = NoSrv
    /\ is_rest \in BOOLEAN /\ has_rk = FALSE /\ state = NoEntry
    /\ loc = InitLoc /\ hist = InitHist(NoEntry)
    /\ current_entity = 0 /\ bookmarks = <<>> /\ idx = 0 /\ started = FALSE
    /\ entities = <<>> /\ input_entity = 0 /\ synced = <<>> /\ nrec = 0
    /\ \/ /\ pc = "from_config"
          /\ config \in [auth_type : AuthTypes, sandbox : BOOLEAN, european : BOOLEAN]
          /\ cli = NoClient
       \/ /\ pc = "request"
          /\ config = NoConfig
          /\ \E uc \in BOOLEAN : cli = [NoClient EXCEPT !.url_check = uc]

InitDiscover ==
    /\ prog = "discover" /\ pc = "discover_stream_names"
    /\ is_rest \in BOOLEAN /\ has_rk = FALSE /\ state = NoEntry
    /\ loc = InitLoc /\ hist = InitHist(NoEntry)
    /\ current_entity = 0 /\ bookmarks = <<>> /\ idx = 0 /\ started = FALSE
    /\ entities = <<>> /\ input_entity = 0 /\ synced = <<>> /\ nrec = 0
    /\ config = NoConfig /\ cli = NoClient
    /\ load = NoLoad /\ sobj = NoState /\ srv = NoSrv
    /\ disc = NoDisc

InitLoad ==
    /\ prog = "load" /\ disc = NoDisc /\ sobj = NoState /\ srv = NoSrv
    /\ is_rest = FALSE /\ has_rk = FALSE /\ state = NoEntry
    /\ loc = InitLoc /\ hist = InitHist(NoEntry)
    /\ current_entity = 0 /\ bookmarks = <<>> /\ idx = 0 /\ started = FALSE
    /\ entities = <<>> /\ input_entity = 0 /\ synced = <<>> /\ nrec = 0
    /\ config = NoConfig /\ cli = NoClient
    /\ \E catalog \in Catalogs :
         \/ /\ pc = "convert_legacy_state"
            /\ \E keys \in [StateNames(catalog) -> LegacyValues],
                  c \in 0..Len(catalog) :
                 load = [catalog |-> catalog, result |-> <<>>,
                         input |-> [keys |-> keys, current_stream |-> c]]
         \/ /\ pc = "validate_state"
            /\ \E b \in [StateNames(catalog) -> StoredEntries],
                  c \in 0..Len(catalog) :
                 load = [catalog |-> catalog, result |-> <<>>,
                         input |-> [bookmarks |-> b, current_stream |-> c]]

\* State(state, default_start_date): the bookmarks of the state given
InitState ==
    /\ prog = "state" /\ pc = "state" /\ disc = NoDisc /\ load = NoLoad /\ srv = NoSrv
    /\ is_rest = FALSE /\ has_rk = FALSE /\ state = NoEntry
    /\ loc = InitLoc /\ hist = InitHist(NoEntry)
    /\ current_entity = 0 /\ bookmarks = <<>> /\ idx = 0 /\ started = FALSE
    /\ entities = <<>> /\ input_entity = 0 /\ synced = <<>> /\ nrec = 0
    /\ config = NoConfig /\ cli = NoClient
    /\ \E e1 \in { NoKeys, [NoKeys EXCEPT !.present = TRUE] }
                   \cup { [present |-> TRUE, version |-> ver, bookmark |-> <<bm>>,
                            file_ids |-> NoIds] :
                             ver \in {<<>>, <<1>>},
                             bm \in {FmtZ(RunStart), FmtS(RunStart), FmtF(RunStart)} },
          e2 \in { NoKeys, [present |-> TRUE, version |-> <<1>>, bookmark |-> <<>>,
                           file_ids |-> NoIds] } :
         sobj = [NoState EXCEPT !.bookmarks = [n \in {1, 2} |-> IF n = 1 THEN e1 ELSE e2],
                                !.default_start_date = <<FmtZ(RunStart - 1)>>]

Init ==
    /\ error = "" /\ out = <<>> /\ now = RunStart
    /\ (InitStream \/ InitRun \/ InitClient \/ InitDiscover \/ InitLoad \/ InitState)

Next ==
    \/ sync_aqua_stream
    \/ sync_rest_stream
    \/ poll_pending
    \/ poll_ready
    \/ poll_failed
    \/ poll_timeout
    \/ stream_file
    \/ read_line
    \/ end_file
    \/ files_done
    \/ do_sync_next
    \/ get_available_entities
    \/ do_check
    \/ get_export
    \/ gen_record
    \/ export_end
    \/ entity_done
    \/ from_config
    \/ get_access_token
    \/ get_url
    \/ retryable_request
    \/ aqua_request
    \/ rest_request
    \/ discover_stream_names
    \/ discover_stream
    \/ migrate_state
    \/ check_state
    \/ call_get_version
    \/ call_get_bookmark
    \/ call_set_bookmark
    \/ call_update_bookmark
    \/ call_get_file_ids
    \/ call_set_file_ids
    \/ pop_file_id

Spec == Init /\ [][Next]_vars

---------------------------------------------------------------------------
(* Properties of the per-stream sync (tap_zuora/sync.py) *)

Incremental == prog = "sync_stream" /\ has_rk
CleanEnd    == prog = "sync_stream" /\ pc = "done"

\* C1: for an incremental stream, when the per-stream sync (either driver) ends
\* without error, the instant of the bookmark in state is not before the
\* instant of the bookmark the sync began with, whatever rows were read.
C1_BookmarkNotLowered ==
    (Incremental /\ CleanEnd) =>
        parse(bookmark_of(state)) >= parse(bookmark_of(hist.state0))

\* a clean end after two records were written in decreasing order
C1_Witness ==
    /\ Incremental /\ CleanEnd
    /\ Len(Records(out)) >= 2
    /\ parse(Records(out)[1].rk[1]) > parse(Records(out)[2].rk[1])

\* C2 (as claimed): every RECORD of an incremental stream carries a
\* replication-key value that is present and not before the bookmark the run
\* began with.
C2_RecordsNotOlderThanBookmark ==
    Incremental =>
        \A i \in 1..Len(out) :
            out[i].type = "RECORD" =>
                /\ out[i].rk # <<>>
                /\ parse(out[i].rk[1]) >= parse(bookmark_of(hist.state0))

\* C3 (as claimed): a row whose replication key equals the stream's current
\* bookmark is not written as a RECORD.
C3_EqualRowNotEmitted ==
    (Incremental /\ hist.last.act = "record") => hist.last.rk # hist.last.bm

\* C3 (amended): a row whose replication key is the same string as the
\* stream's current bookmark is written as a RECORD: line 114 drops only
\* values that compare less than the bookmark the file consumption began with.
C3_EqualRowEmitted ==
    (Incremental /\ hist.last.act \in {"record", "dropped"}
                 /\ hist.last.rk = hist.last.bm)
        => hist.last.act = "record"

\* a row equal to the current bookmark was just read, after that bookmark had
\* been moved by an earlier row
C3_Witness ==
    /\ Incremental /\ hist.last.act = "record"
    /\ hist.last.rk = hist.last.bm
    /\ hist.last.bm # hist.last.sd

StateBookmarks == [i \in 1..Len(States(out)) |-> States(out)[i].st[1].bookmark]

\* C4 (as claimed): the bookmarks of the successive STATE messages of an
\* incremental stream never go back in time within one run.
C4_StateBookmarksMonotonic ==
    Incremental =>
        \A i, j \in 1..Len(StateBookmarks) :
            i < j => parse(StateBookmarks[i][1]) <= parse(StateBookmarks[j][1])

Resumed == prog = "sync_stream" /\ ~is_rest /\ Truthy(hist.state0.file_ids)

IsPrefix(a, b) == Len(a) <= Len(b) /\ a = SubSeq(b, 1, Len(a))

\* C5: batch driver, state holding a non-empty file_ids list when the sync
\* begins: the files opened are those of the list, in list order, and no export
\* job is created before the whole list has been opened.
C5_ResumeStoredFiles ==
    Resumed =>
        /\ IsPrefix(hist.streamed, hist.state0.file_ids.ids)
        /\ hist.jobs > 0 => hist.streamed = hist.state0.file_ids.ids

\* the stored list <<2, 1>> was consumed to its end
C5_Witness ==
    /\ Resumed /\ CleanEnd
    /\ hist.streamed = hist.state0.file_ids.ids
    /\ Len(hist.streamed) = 2

\* C6 (as claimed): after a clean end the bookmark entry has none of the keys
\* file_ids, current_window_end, window_length.
C6_NoTransientKeys ==
    CleanEnd =>
        /\ state.file_ids.k = "absent"
        /\ state.current_window_end = <<>>
        /\ state.window_length = <<>>

\* C6 (amended): after a clean end the bookmark entry has no current_window_end
\* and no window_length, and holds no list of file ids: file_ids is absent or,
\* after sync_file_ids has run, present with the value null.
C6_NoTransientValues ==
    CleanEnd =>
        /\ state.file_ids.k \in {"absent", "none"}
        /\ state.current_window_end = <<>>
        /\ state.window_length = <<>>

\* a clean end of a sync that began with current_window_end in state and
\* left file_ids null
C6_Witness ==
    /\ CleanEnd
    /\ hist.state0.current_window_end # <<>>
    /\ state.file_ids = NoneIds

---------------------------------------------------------------------------
(* Properties of the run loop (tap_zuora/__init__.py).  The state key the    *)
(* loop writes is current_entity.                                            *)

Run      == prog = "do_sync"
RunEnded == prog = "do_sync" /\ pc = "done"

LastOut == out[Len(out)]

\* C7: when the run ends with every entity synced without error, the last
\* STATE written names no current stream; and every STATE written while an
\* entity is being synced names that entity.
C7_CurrentStreamMarks ==
    /\ [](RunEnded /\ States(out) # <<>> => LastState(out).current_entity = 0)
    /\ [][ (Run /\ pc' \in {"entity", "export"}) =>
              \A i \in (Len(out) + 1)..Len(out') :
                  out'[i].type = "STATE" => out'[i].st[1].current_entity = idx'
         ]_vars

\* the run ended after two entities were synced, and a STATE naming the
\* second carried its bookmark
C7_Witness ==
    /\ RunEnded /\ Len(synced) >= 2
    /\ LastState(out).current_entity = 0
    /\ \E i \in 1..Len(States(out)) :
          /\ States(out)[i].st[1].current_entity = 2
          /\ States(out)[i].st[1].bookmarks[2] # <<>>

\* the input state names a current stream
Resuming == Run /\ input_entity # 0

\* the named stream is one of the entities the run lists
NamedIsListed == input_entity \in 1..Len(entities)

\* the named entity and those after it in the list (none when the named one
\* is not listed)
FromNamed == [i \in 1..(Len(entities) - input_entity + 1) |-> input_entity + i - 1]

C9_StateSchemaRecordOrder ==
    Run =>
        /\ \A j \in 1..Len(out) :
              out[j].type = "SCHEMA" =>
                 \E i \in 1..(j - 1) :
                    /\ out[i].type = "STATE"
                    /\ out[i].st[1].current_entity = out[j].stream
        /\ \A e \in 1..Len(synced) :
              \/ \E j \in 1..Len(out) :
                    out[j].type = "SCHEMA" /\ out[j].stream = synced[e]
              \/ /\ e = Len(synced) /\ pc = "failed" /\ error = "ApiException"
                 /\ LastOut.type = "STATE" /\ LastOut.st[1].current_entity = synced[e]
        /\ \A k \in 1..Len(out) :
              out[k].type = "RECORD" =>
                 \E j \in 1..(k - 1) :
                    out[j].type = "SCHEMA" /\ out[j].stream = out[k].stream

\* a record of the second entity synced has been written
C9_Witness ==
    /\ Run /\ Len(synced) >= 2
    /\ LastOut.type = "RECORD" /\ LastOut.stream = synced[2]

---------------------------------------------------------------------------
(* The batch driver when every export job times out: Aqua.create_job always  *)
(* answers with a job id and poll_job_until_done always raises              *)
(* ExportTimedOut.  The program retries by itself (sync_aqua_stream calls   *)
(* itself, line 179), so each step is taken once it is enabled.             *)

InitTimeouts ==
    /\ Init
    /\ prog = "sync_stream" /\ ~is_rest /\ has_rk /\ needs_job(state)

job_submitted == sync_aqua({"id"})

job_times_out == timed_out({"id"})

NextTimeouts == job_submitted \/ job_times_out

SpecTimeouts == InitTimeouts /\ [][NextTimeouts]_vars /\ WF_vars(NextTimeouts)

WindowAtBookmark(e) ==
    e.current_window_end # <<>> /\ parse(e.current_window_end[1]) = parse(bookmark_of(e))

\* the window still to export: from the bookmark to current_window_end or,
\* while state holds none, to the clock
Distance(e, clock) == previous_window_end(e, clock) - parse(bookmark_of(e))

\* C10: batch driver, incremental stream, every job timing out: the sync ends
\* with the export-too-large error; a timeout raises it exactly when the
\* current_window_end in state equals the bookmark; every other timeout
\* strictly shrinks the distance between current_window_end and the bookmark.
C10_TimeoutsEndTooLarge ==
    /\ <>(pc = "failed" /\ error = "ExportTooLarge")
    /\ [](pc = "failed" => error = "ExportTooLarge" /\ WindowAtBookmark(state))
    /\ [][ pc = "poll" =>
              IF WindowAtBookmark(state)
              THEN pc' = "failed" /\ error' = "ExportTooLarge"
              ELSE /\ pc' = "poll"
                   /\ state'.current_window_end # <<>>
                   /\ Distance(state', now') < Distance(state, now')
         ]_vars

\* the sync failed with export-too-large after the window had been halved
\* down to the bookmark
C10_Witness ==
    /\ prog = "sync_stream" /\ ~is_rest /\ has_rk
    /\ pc = "failed" /\ error = "ExportTooLarge"
    /\ hist.state0.current_window_end = <<>>
    /\ hist.timeouts >= MaxTimeouts
    /\ WindowAtBookmark(state)

---------------------------------------------------------------------------
(* The sync driver when every export job times out: poll_job_until_done      *)
(* always raises ExportTimedOut; iterate_rest_query_window retries by       *)
(* itself (line 234).                                                       *)

InitRestTimeouts ==
    /\ Init
    /\ prog = "sync_stream" /\ is_rest /\ has_rk /\ ~Truthy(state.file_ids)

rest_job_times_out == timed_out(CreateJobResponses)

NextRestTimeouts == sync_rest_stream \/ rest_job_times_out

SpecRestTimeouts ==
    InitRestTimeouts /\ [][NextRestTimeouts]_vars /\ WF_vars(NextRestTimeouts)

\* C11: sync driver, incremental stream: a polling timeout halves the window
\* length (integer division), writes the halved value to STATE and retries the
\* same window start; when the halved value is 0 it fails with the
\* export-too-large error instead; so with every job timing out the sync ends.
C11_RestTimeoutsHalveWindow ==
    /\ [](pc = "poll" => <>(pc = "failed" /\ error = "ExportTooLarge"))
    /\ [][ pc = "poll" =>
              IF loc.window_length \div 2 = 0
              THEN pc' = "failed" /\ error' = "ExportTooLarge" /\ out' = out
              ELSE /\ pc' = "poll"
                   /\ loc'.window_length = loc.window_length \div 2
                   /\ state'.window_length = <<loc.window_length \div 2>>
                   /\ Len(out') = Len(out) + 1
                   /\ out'[Len(out')].type = "STATE"
                   /\ out'[Len(out')].st[1] = state'
                   /\ loc'.job[1] = loc.job[1]
         ]_vars

\* the sync failed with export-too-large after the default window had been
\* halved down to one second
C11_Witness ==
    /\ prog = "sync_stream" /\ is_rest /\ has_rk
    /\ pc = "failed" /\ error = "ExportTooLarge"
    /\ hist.state0.window_length = <<>>
    /\ state.window_length = <<1>>
    /\ hist.timeouts >= MaxTimeouts

---------------------------------------------------------------------------
(* Errors while files are consumed (sync_file_ids) *)

FileRequestFails == prog = "sync_stream" /\ pc = "file" /\ pc' = "failed"

\* C12 as stated: when the request for a file answers 404 the sync aborts
\* with the file-not-found error, the handling leaves the bookmark as it
\* was, and the last STATE written has no file_ids in the stream's entry;
\* any other API error of the request aborts the sync with nothing written,
\* the entry unchanged but for the id that was popped from the list before
\* the request.
C12_FileRequestErrors ==
    [][ FileRequestFails =>
          IF hist'.status = 404
          THEN /\ error' = "FileIdNotFound"
               /\ state'.bookmark = state.bookmark
               /\ Len(out') = Len(out) + 1
               /\ out'[Len(out')].type = "STATE"
               /\ out'[Len(out')].st[1].file_ids.k = "absent"
               /\ out'[Len(out')].st[1].bookmark = state.bookmark
          ELSE /\ error' = "ApiException"
               /\ out' = out
               /\ [state' EXCEPT !.file_ids = state.file_ids] = state
               /\ state'.file_ids \in {state.file_ids, ListIds(loc'.file_ids)}
      ]_vars

\* what the code does: a 404 never reaches the handler of lines 78-89,
\* because the client raises HTTPError for it (client.py:250-251) and
\* HTTPError is no ApiException; every failed file request, the 404
\* included, ends the sync with the client's exception (for a 400 the one
\* that its body leads check_for_error to), no STATE written and the entry
\* unchanged but for the popped id, which stays out of file_ids
C12_FileRequestErrorsPropagate ==
    [][ FileRequestFails =>
          /\ error' = (IF hist'.status = 404 THEN "HTTPError"
                       ELSE IF hist'.status = 400
                            THEN CASE hist'.body = "not_json" -> "JSONDecodeError"
                                   [] hist'.body = "list" -> "AttributeError"
                                   [] hist'.body = "no_errors" -> "IndexError"
                                   [] hist'.body = "no_message" -> "KeyError"
                                   [] hist'.body = "null_message" -> "TypeError"
                                   [] hist'.body = "noSuchDataSource" -> "ApiException"
                                   [] OTHER -> "HTTPError"
                            ELSE "ApiException")
          /\ out' = out
          /\ [state' EXCEPT !.file_ids = state.file_ids] = state
          /\ state'.file_ids \in {state.file_ids, ListIds(loc'.file_ids)}
          /\ state'.file_ids = state.file_ids =>
                (~loc.aliased \/ state.file_ids.k # "list")
      ]_vars

\* the second file of a stored list answered 404 after a record of the first
\* file had been written: the last STATE still lists the second file
C12_Witness ==
    /\ prog = "sync_stream" /\ has_rk
    /\ pc = "failed" /\ error = "HTTPError" /\ hist.status = 404
    /\ Len(hist.streamed) = 2
    /\ Len(Records(out)) >= 1
    /\ LastOut.type = "STATE" /\ LastOut.st[1].file_ids.k = "list"
    /\ state.file_ids = ListIds(<<>>)

NonRectangular == prog = "sync_stream" /\ error = "NonRectangular"

\* C13: when a data line has another number of columns than the header, no
\* RECORD is written for it or for any later line, the last STATE written has
\* file_ids removed from the entry and the clock's integer time as version,
\* and the sync is aborted with an error.
C13_NonRectangularLine ==
    /\ [](NonRectangular =>
             /\ pc = "failed"
             /\ LastOut.type = "STATE"
             /\ LastOut.st[1].file_ids.k = "absent"
             /\ LastOut.st[1].version = now)
    /\ [][ (prog = "sync_stream" /\ error' = "NonRectangular") =>
              Records(out') = Records(out) ]_vars

\* a short line was met after a record of the same file had been written,
\* with file ids still stored
C13_Witness ==
    /\ NonRectangular /\ has_rk
    /\ hist.last.act = "short"
    /\ Len(Records(out)) >= 1
    /\ Len(hist.streamed) = 1
    /\ Truthy(hist.state0.file_ids)
    /\ state.version = now /\ hist.state0.version # now

---------------------------------------------------------------------------
(* Errors and the run loop *)

\* an entity's sync raised (an error of the listing of the entities, before
\* the loop, is no entity's)
RunAborted == prog = "do_sync" /\ error # "" /\ synced # <<>>

\* C14 (as claimed): after an entity's sync aborts with an error the run goes
\* on: while entities remain after the failed one, the run has a next step.
C14_RunContinuesAfterError ==
    (RunAborted /\ idx < Len(entities)) => ENABLED Next

\* C14 (amended): an error of an entity's sync is not caught by the run loop:
\* the run ends there, no later entity is synced, and the last STATE written
\* names the failed entity as the current one, so that the next run resumes
\* at it.
C14_ErrorEndsRun ==
    RunAborted =>
        /\ ~ENABLED Next
        /\ synced # <<>> /\ synced[Len(synced)] = idx
        /\ current_entity = idx
        /\ LastState(out).current_entity = idx

\* the export of the second of three entities failed
C14_Witness ==
    /\ RunAborted /\ pc = "failed"
    /\ Len(entities) = 3 /\ idx = 2
    /\ synced = <<1, 2>>

---------------------------------------------------------------------------
(* Streams without a replication key *)

FullTable == prog = "sync_stream" /\ ~has_rk

\* C15 (as claimed): in every STATE written for a FULL_TABLE stream the
\* bookmark entry has no key other than version.
C15_OnlyVersionKey ==
    FullTable =>
        \A i \in 1..Len(States(out)) :
            LET e == States(out)[i].st[1] IN
            /\ e.file_ids.k = "absent"
            /\ e.bookmark = <<>>
            /\ e.current_window_end = <<>>
            /\ e.window_length = <<>>

\* C15 (amended): in every STATE written for a FULL_TABLE stream the bookmark
\* entry has no replication-key value, no current_window_end and no
\* window_length; besides version it can carry file_ids, and after a clean end
\* it does, with the value null.
C15_NoBookmarkKeys ==
    FullTable =>
        /\ \A i \in 1..Len(States(out)) :
              LET e == States(out)[i].st[1] IN
              /\ e.bookmark = <<>>
              /\ e.current_window_end = <<>>
              /\ e.window_length = <<>>
        /\ CleanEnd => LastState(out).file_ids = NoneIds

\* a FULL_TABLE stream starting without file_ids ended cleanly after a STATE
\* with a list of file ids had been written
C15_Witness ==
    /\ FullTable /\ CleanEnd
    /\ hist.state0.file_ids = NoIds
    /\ States(out)[1].st[1].file_ids.k = "list"
    /\ Len(Records(out)) >= 1

---------------------------------------------------------------------------
(* A sync that follows a clean sync of the same stream: the entry it starts *)
(* from is the terminal STATE of the first one.                             *)

SecondRun ==
    /\ Incremental
    /\ hist.state0.file_ids = NoneIds
    /\ hist.state0.current_window_end = <<>>
    /\ hist.state0.window_length = <<>>
    /\ is_rest => bookmark_of(hist.state0).f = "S"

\* every row written so far is one upstream already held at the first sync's
\* terminal bookmark (the rows read after that instant are all written)
NoNewData ==
    \A i \in 1..Len(Records(out)) :
        parse(Records(out)[i].rk[1]) <= parse(bookmark_of(hist.state0))

RepeatsTerminalState ==
    \E i \in 1..Len(States(out)) : States(out)[i].st[1] = hist.state0

\* C16 (as claimed): a second clean sync with no new upstream data writes no
\* RECORD and writes a STATE equal to the terminal STATE of the first (taken
\* for a sync that exports and meets no polling timeout).
C16_SecondRunIdle ==
    (SecondRun /\ CleanEnd /\ NoNewData /\ hist.jobs > 0 /\ hist.timeouts = 0) =>
        Records(out) = <<>> /\ RepeatsTerminalState

\* C16 (amended): the second sync writes RECORDs only for rows whose
\* replication key does not compare less than the first sync's terminal
\* bookmark, a row equal to it included; when it exports, meets no polling
\* timeout, writes no RECORD and ends cleanly, it has written a STATE equal to
\* the terminal STATE of the first sync.
C16_SecondRunRepeatsBoundary ==
    SecondRun =>
        /\ \A i \in 1..Len(Records(out)) :
              ~StrLess(Records(out)[i].rk[1], bookmark_of(hist.state0))
        /\ (CleanEnd /\ Records(out) = <<>> /\ hist.jobs > 0 /\ hist.timeouts = 0)
              => RepeatsTerminalState

\* a second sync that read a line, wrote no RECORD and repeated the terminal
\* STATE
C16_Witness ==
    /\ SecondRun /\ CleanEnd
    /\ hist.rows >= 1 /\ hist.jobs > 0 /\ hist.timeouts = 0
    /\ Records(out) = <<>>
    /\ RepeatsTerminalState

---------------------------------------------------------------------------
(* Claims about client.py *)

\* the request has been sent at least once by retryable_request
Sent == prog = "client" /\ Len(cli.statuses) > 0

\* C17: a request answered 429, 500, 502, 503 or 504 on every attempt is
\* sent exactly 5 times and then fails with RateLimitException (429) or
\* RetryableException (5xx); a request whose k-th attempt (k <= 5) is
\* answered with another status is sent exactly k times.
C17_RetriedFiveTimes ==
    Sent =>
      LET n    == Len(cli.statuses)
          last == cli.statuses[n]
          Retried == {429, 500, 502, 503, 504}
      IN  /\ n <= 5
          /\ \A i \in 1..(n - 1) : cli.statuses[i] \in Retried
          /\ (pc = "request") <=> (last \in Retried /\ n < 5)
          /\ (n = 5 /\ last = 429) => (pc = "failed" /\ error = "RateLimitException")
          /\ (n = 5 /\ last \in Retried \ {429}) =>
                (pc = "failed" /\ error = "RetryableException")
          /\ last \notin Retried =>
                error \notin {"RateLimitException", "RetryableException"}

C17_Witness ==
    /\ Sent /\ Len(cli.statuses) = 5 /\ pc = "failed"
    /\ cli.statuses[1] = 429 /\ cli.statuses[5] = 503
    /\ error = "RetryableException"

\* get_url has probed at least one prefix
Probed == prog = "client" /\ Len(cli.probes) > 0

\* the prefixes probed so far are the first ones of the candidates for
\* (sandbox, european), in their order, and all but the last answered 401
ProbedInOrder ==
    LET urls == URLS(config.sandbox, config.european)
        n    == Len(cli.probes)
    IN  /\ n <= Len(urls)
        /\ cli.probes = SubSeq(urls, 1, n)
        /\ Len(cli.answers) = n
        /\ \A i \in 1..(n - 1) : cli.answers[i] = 401

\* BadCredentials leaves get_url exactly when every candidate answered 401
BadCredentialsIffAll401 ==
    LET urls == URLS(config.sandbox, config.european)
    IN  (pc # "get_url") =>
          ((error = "BadCredentialsException") <=>
             (/\ Len(cli.probes) = Len(urls)
              /\ \A i \in 1..Len(urls) : cli.answers[i] = 401))

\* C18 as stated: data-center resolution probes the candidate prefixes for
\* (sandbox, european) in order and returns the first prefix whose probe
\* response status is not 401, without probing later prefixes; it fails
\* with BadCredentials if and only if every candidate's probe returns 401.
C18_FirstNon401Wins ==
    Probed =>
      LET n == Len(cli.probes)
      IN  /\ ProbedInOrder
          /\ BadCredentialsIffAll401
          /\ cli.answers[n] # 401 =>
                (pc = "done" /\ cli.base_url = <<cli.probes[n]>>)

\* C18, amended: the first prefix whose probe ends in a response of status
\* other than 401 is returned; a probe that ends in an exception (429 or
\* 5xx on all five attempts, in batch mode a 200 whose body is no JSON, has
\* an errorCode or has no id, a failed delete of the probe job) ends the
\* resolution with that exception and no prefix; later prefixes are not
\* probed in either case; it fails
\* with BadCredentials if and only if every candidate's probe returns 401.
C18_FirstAnsweredNon401Wins ==
    Probed =>
      LET n == Len(cli.probes)
      IN  /\ ProbedInOrder
          /\ BadCredentialsIffAll401
          /\ (cli.answers[n] # 401 /\ cli.result = "response") =>
                (pc = "done" /\ cli.base_url = <<cli.probes[n]>>)
          /\ cli.result # "response" =>
                (/\ pc = "failed" /\ error = cli.result
                 /\ cli.answers[n] # 401 /\ cli.base_url = <<>>)
          /\ cli.answers[n] = 401 => cli.base_url = <<>>

C18_Witness ==
    /\ Probed /\ pc = "done" /\ Len(cli.probes) = 2
    /\ cli.answers = <<401, 400>>
    /\ cli.base_url = <<URLS(config.sandbox, config.european)[2]>>

\* get_access_token has posted at least once
Posted == prog = "client" /\ Len(cli.posts) > 0

\* C19: get_access_token posts the exchange to <base>oauth/token for each
\* base url in list order; it returns the access token of the first base
\* url whose request succeeds, without contacting later ones; it raises
\* BadCredentialsException after exactly one request per base url when all
\* of them fail.
C19_TokenFromFirstSuccess ==
    Posted =>
      LET urls == URLS(config.sandbox, config.european)
          n    == Len(cli.posts)
          AllFailed == /\ n = Len(urls)
                       /\ \A i \in 1..n : cli.replies[i] = "RequestException"
      IN  /\ n <= Len(urls) /\ Len(cli.replies) = n
          /\ \A i \in 1..n : cli.posts[i] = urls[i] \o "oauth/token"
          /\ \A i \in 1..(n - 1) : cli.replies[i] = "RequestException"
          /\ (cli.replies[n] = "access_token") <=> (cli.access_token = <<Str("access_token")>>)
          /\ cli.replies[n] = "access_token" => pc # "get_access_token"
          /\ AllFailed <=> (error = "BadCredentialsException" /\ cli.probes = <<>>)
          /\ AllFailed => pc = "failed"
          /\ (pc = "get_access_token") <=>
                (n < Len(urls) /\ cli.replies[n] = "RequestException")

C19_Witness ==
    /\ Posted /\ Len(cli.posts) = 2
    /\ cli.replies = <<"RequestException", "access_token">>
    /\ cli.access_token = <<Str("access_token")>>
    /\ cli.posts[2] = "https://rest.zuora.com/oauth/token"

\* Client.from_config has run on the config
Configured ==
    prog = "client" /\ pc \notin {"from_config", "request"} /\ cli.statuses = <<>>

\* the token exchange is about to be made or has been made
TokenAsked == pc = "get_access_token" \/ cli.posts # <<>>

\* C20 as stated: with auth_type absent or "Basic" the client uses basic
\* auth (auth_type "Basic", access_token None, no token request); with
\* auth_type "OAuth" it asks for an access token and stores it; with
\* auth_type None or the empty string it raises BadCredentialsException.
C20_AuthTypeValues ==
    Configured =>
      /\ config.auth_type \in {Absent, Str("Basic")} =>
            (/\ cli.auth_type = <<"Basic">> /\ cli.access_token = <<None>>
             /\ cli.posts = <<>>)
      /\ config.auth_type = Str("OAuth") =>
            (/\ cli.auth_type = <<"OAuth">> /\ TokenAsked
             /\ (cli.posts # <<>> /\ cli.replies[Len(cli.replies)] = "access_token") =>
                   cli.access_token = <<Str("access_token")>>)
      /\ config.auth_type \in {None, Str("")} =>
            (/\ pc = "failed" /\ error = "BadCredentialsException"
             /\ cli.auth_type = <<>> /\ cli.posts = <<>> /\ cli.probes = <<>>)

\* what from_config does with each value: "BASIC" and an absent auth_type
\* give basic auth under the name "BASIC" with no token request, "OAUTH"
\* asks for a token, and every other value, "Basic" and "OAuth" among them,
\* raises BadCredentialsException before any request
C20_UpperCaseOnly ==
    Configured =>
      /\ config.auth_type \in {Absent, Str("BASIC")} =>
            (/\ cli.auth_type = <<"BASIC">> /\ cli.access_token = <<None>>
             /\ cli.posts = <<>>)
      /\ config.auth_type = Str("OAUTH") =>
            (/\ cli.auth_type = <<"OAUTH">> /\ TokenAsked
             /\ (cli.posts # <<>> /\ cli.replies[Len(cli.replies)] = "access_token") =>
                   cli.access_token = <<Str("access_token")>>)
      /\ config.auth_type \in {None, Str(""), Str("Basic"), Str("OAuth")} =>
            (/\ pc = "failed" /\ error = "BadCredentialsException"
             /\ cli.auth_type = <<>> /\ cli.posts = <<>> /\ cli.probes = <<>>)

C20_Witness ==
    /\ Configured /\ config.auth_type = Str("OAuth")
    /\ pc = "failed" /\ error = "BadCredentialsException" /\ cli.posts = <<>>

\* C21 as stated: with bearer (OAuth) auth, every request is sent with a
\* token that is more than 60 seconds from expiry: a cached token within 60
\* seconds of expiry, or expired, is refreshed before the next request.
C21_TokenFreshOnEveryRequest ==
    prog = "client" =>
      \A i \in 1..Len(cli.sent) :
         cli.sent[i].authorization = "Bearer" => cli.sent[i].left > 60

\* the token is the one of the construction for as long as the client lives:
\* no request is preceded by another token exchange
C21_TokenNeverRefreshed ==
    (prog = "client" /\ cli.sent # <<>>) =>
      /\ Len(cli.posts) <= Len(URLS(config.sandbox, config.european))
      /\ \A i \in 1..Len(cli.sent) :
            (cli.sent[i].authorization = "Bearer") <=> (cli.auth_type = <<"OAUTH">>)

\* a bearer request sent with 30 seconds left on the token
C21_Witness ==
    /\ prog = "client" /\ Len(cli.sent) = 2
    /\ cli.sent[2].authorization = "Bearer" /\ cli.sent[2].left = 30

---------------------------------------------------------------------------
(* Claims about discover.py *)

\* the availability probe of the last object was answered 400 with a first
\* error message that contains noSuchDataSource
ProbeNoSuchDataSource ==
    /\ prog = "discover" /\ disc.pos + (IF pc = "failed" THEN 1 ELSE 0) > 0
    /\ disc.last.describe = "fields"
    /\ disc.last.status = 400 /\ disc.last.nsd

\* C22 as stated: when the availability probe for an object receives 400
\* whose first error message contains "noSuchDataSource", discovery raises no
\* error, leaves the object out of the catalog, and goes on to the remaining
\* objects.
C22_NoSuchDataSourceSkipsObject ==
    ProbeNoSuchDataSource =>
       /\ error = "" /\ pc # "failed"
       /\ disc.pos > 0
       /\ \A i \in 1..Len(disc.streams) : disc.streams[i] # disc.names[disc.pos]
       /\ (pc = "done") <=> (disc.pos = Len(disc.names))

\* what the code does: the 400 passes check_for_error and is raised by
\* _request as ApiException, which nothing in discovery catches around the
\* availability probe; the catalog is not returned
C22_NoSuchDataSourceEndsDiscovery ==
    ProbeNoSuchDataSource =>
       /\ pc = "failed" /\ error = "ApiException"
       /\ disc.pos < Len(disc.names)

C22_Witness ==
    /\ ProbeNoSuchDataSource /\ pc = "failed" /\ error = "ApiException"
    /\ disc.pos = 1 /\ disc.streams = <<1>> /\ Len(disc.names) = 2

---------------------------------------------------------------------------
(* Claims about the State Manager *)

Migrated  == prog = "load" /\ pc = "done" /\ "keys" \in DOMAIN load.input
Validated == prog = "load" /\ pc = "done" /\ "bookmarks" \in DOMAIN load.input

\* the legacy key of the name is one that is carried over
LegacyKeyOfSelected(name) ==
    /\ load.input.keys[name] # <<>>
    /\ name \in 1..Len(load.catalog)
    /\ load.catalog[name].selected /\ load.catalog[name].incremental

\* the legacy state given was empty
EmptyLegacyState ==
    /\ \A name \in DOMAIN load.input.keys : load.input.keys[name] = <<>>
    /\ load.input.current_stream = 0

C24_ValidateState ==
    Validated =>
      LET res == load.result[1]
          inp == load.input
          sel(name) == name \in 1..Len(load.catalog) /\ load.catalog[name].selected
      IN
      /\ \A name \in DOMAIN inp.bookmarks :
            IF sel(name) /\ inp.bookmarks[name] = <<>>
            THEN res.bookmarks[name] =
                   <<[version |-> <<now>>,
                      replication_key |-> <<FmtZ(RunStart - 31 * SecPerDay)>>]>>
            ELSE res.bookmarks[name] = inp.bookmarks[name]
      /\ res.current_stream =
            (IF inp.current_stream # 0 /\ ~sel(inp.current_stream)
             THEN 0 ELSE inp.current_stream)

C24_Witness ==
    /\ Validated /\ Len(load.catalog) = 2
    /\ load.catalog[1].selected /\ ~load.catalog[2].selected
    /\ load.input.bookmarks[1] = <<>> /\ load.input.bookmarks[2] = <<>>
    /\ load.input.bookmarks[3] # <<>>
    /\ load.input.current_stream = 2
    /\ load.result[1].bookmarks[1] # <<>> /\ load.result[1].bookmarks[2] = <<>>
    /\ load.result[1].current_stream = 0

---------------------------------------------------------------------------
(* Further properties of the per-stream sync (tap_zuora/sync.py) *)

Lists(f, id) == f.k = "list" /\ \E i \in 1..Len(f.ids) : f.ids[i] = id

\* the id was in the state the sync began with, or in a STATE written since
Persisted(id) ==
    \/ Lists(hist.state0.file_ids, id)
    \/ \E i \in 1..Len(out) :
          out[i].type = "STATE" /\ Lists(out[i].st[1].file_ids, id)

\* a STATE has just been written for a row of the file being read
StateWrittenInFile ==
    /\ prog = "sync_stream" /\ has_rk /\ pc = "rows"
    /\ hist.last.act = "record" /\ Persisted(loc.cur_file)

\* C25 as stated: a file id is removed from the persisted file_ids list only
\* after that file has been consumed to its end: every STATE written while
\* rows of a file are still being processed still lists that file's id.
C25_FileIdKeptUntilFileEnd ==
    StateWrittenInFile => Lists(LastState(out).file_ids, loc.cur_file)

\* what the code does: the list that sync_file_ids pops from is the list
\* held in state, so no STATE written for a row lists the file being read
C25_FileIdGoneWhenOpened ==
    StateWrittenInFile => ~Lists(LastState(out).file_ids, loc.cur_file)

C25_Witness ==
    /\ StateWrittenInFile /\ ~is_rest /\ hist.jobs = 1
    /\ loc.cur_file = 1 /\ loc.file_ids = <<2>>
    /\ LastState(out).file_ids = ListIds(<<2>>)

\* batch driver, incremental stream, begun with a current_window_end in
\* state; no timeout has replaced it and no row has been written
WindowEndPending ==
    /\ prog = "sync_stream" /\ ~is_rest /\ has_rk
    /\ hist.state0.current_window_end # <<>>
    /\ hist.timeouts = 0 /\ Records(out) = <<>>

\* C26 as stated: a current_window_end present in state is adopted as the
\* bookmark when, and only when, the export's files have all been consumed
\* without error (an export with zero rows still advances the bookmark to
\* current_window_end); if the sync aborts before that, the STATE written
\* still carries the earlier bookmark.
C26_WindowEndAdoptedOnCleanEnd ==
    WindowEndPending =>
      /\ pc = "done" => state.bookmark = hist.state0.current_window_end
      /\ (pc = "failed" /\ States(out) # <<>>) =>
            LastState(out).bookmark = hist.state0.bookmark

\* what the code does: the window end becomes the bookmark as soon as the
\* file ids are at hand (lines 169-171), before any file is requested, and
\* every STATE written from then on carries it, also the one written when
\* the sync aborts on a non-rectangular line
C26_WindowEndAdoptedBeforeFiles ==
    WindowEndPending =>
      /\ pc \in {"file", "rows", "done"} =>
            (/\ state.bookmark = hist.state0.current_window_end
             /\ state.current_window_end = <<>>)
      /\ (pc = "failed" /\ error = "NonRectangular") =>
            LastState(out).bookmark = hist.state0.current_window_end

C26_Witness ==
    /\ WindowEndPending /\ pc = "failed" /\ error = "NonRectangular"
    /\ hist.jobs = 1
    /\ LastState(out).bookmark = hist.state0.current_window_end
    /\ hist.state0.current_window_end # hist.state0.bookmark

\* batch driver, incremental stream: a job is being polled that was
\* submitted after a timeout had set current_window_end
RetriedAfterTimeout ==
    /\ prog = "sync_stream" /\ ~is_rest /\ has_rk
    /\ pc = "poll" /\ hist.timeouts > 0
    /\ state.current_window_end # <<>>

\* C27 as stated: after a timeout has set current_window_end, the next
\* export job submitted for the stream covers only rows whose replication
\* key lies in [bookmark, current_window_end).
C27_RetryCoversHalvedWindow ==
    RetriedAfterTimeout =>
      /\ hist.query.incrementalTime = state.bookmark
      /\ hist.query.before = state.current_window_end

\* what the code does: the retried job is submitted with the bookmark as
\* incrementalTime and no upper limit, exactly as the job that timed out
C27_RetryIsSameJob ==
    RetriedAfterTimeout =>
      /\ hist.query.incrementalTime = state.bookmark
      /\ hist.query.before = <<>>

C27_Witness ==
    /\ RetriedAfterTimeout /\ hist.timeouts = 1 /\ hist.jobs = 2
    /\ hist.query.before = <<>>
    /\ parse(state.current_window_end[1]) > parse(bookmark_of(state))

\* a polling timeout of the batch driver on an incremental stream whose
\* previous_window_end differs from the bookmark
AquaTimeoutStep ==
    /\ prog = "sync_stream" /\ ~is_rest /\ has_rk /\ pc = "poll"
    /\ hist'.timeouts = hist.timeouts + 1
    /\ (IF state.current_window_end # <<>>
        THEN state.current_window_end[1].t ELSE now') # state.bookmark[1].t

\* C28: on such a timeout state gets current_window_end =
\* previous_window_end - (previous_window_end - bookmark) / 2, in the
\* persisted format (whole seconds, cut off); previous_window_end is the
\* persisted current_window_end, or the current time when none is
\* persisted; bookmark, version and file_ids are left unchanged; and the
\* STATE is written before the retry creates a new job.
C28_TimeoutHalvesWindow ==
    [][ AquaTimeoutStep =>
          LET prev == IF state.current_window_end # <<>>
                      THEN state.current_window_end[1].t ELSE now'
              B    == state.bookmark[1].t
              w    == state'.current_window_end
          IN  /\ w # <<>> /\ w[1].f = "Z"
              /\ 2 * w[1].t <= 2 * prev - (prev - B)
              /\ 2 * prev - (prev - B) < 2 * w[1].t + 2
              /\ state'.bookmark = state.bookmark
              /\ state'.version = state.version
              /\ state'.file_ids = state.file_ids
              /\ out' = Append(out, [type |-> "STATE", stream |-> 0,
                                     st |-> <<state'>>, rk |-> <<>>])
              /\ pc' \in {"poll", "failed"}
              /\ pc' = "poll" => hist'.query = [incrementalTime |-> state'.bookmark,
                                                before |-> <<>>]
      ]_vars

\* the job submitted after a timeout that halved an odd number of seconds
C28_Witness ==
    /\ prog = "sync_stream" /\ ~is_rest /\ has_rk /\ pc = "poll"
    /\ hist.timeouts = 1 /\ hist.state0.current_window_end # <<>>
    /\ state.current_window_end = hist.state0.bookmark
    /\ LastState(out) = state

\* sync driver, incremental stream: the file of a window's job has been
\* read to its end and the window is completed
RestWindowCompletes ==
    /\ prog = "sync_stream" /\ is_rest /\ has_rk
    /\ pc = "file" /\ loc.file_ids = <<>> /\ loc.ret = "rest_window"
    /\ pc' # pc

\* C29: after each window whose job and file complete, the bookmark equals
\* that window's end, window_length is absent from the stream's entry (the
\* next window uses the 30-day default even if the finished window had been
\* shrunk), and a STATE is written before the next window's job is created.
C29_WindowCompletion ==
    [][ RestWindowCompletes =>
          /\ state'.bookmark = <<[t |-> loc.job[2], f |-> "S"]>>
          /\ state'.window_length = <<>>
          /\ Len(out') > Len(out)
          /\ out'[Len(out')] = [type |-> "STATE", stream |-> 0,
                                st |-> <<state'>>, rk |-> <<>>]
          /\ pc' \in {"poll", "done"}
          /\ pc' = "poll" =>
                /\ loc.job[2] < loc.sync_started
                /\ loc'.job[1] = loc.job[2]
                /\ loc'.job[2] = Min(loc.job[2] + 30 * 86400, loc.sync_started)
          /\ pc' = "done" => loc.job[2] = loc.sync_started
      ]_vars

\* the job of the window that follows a shrunk window: it reaches further
\* than the shrunk length would
C29_Witness ==
    /\ prog = "sync_stream" /\ is_rest /\ has_rk /\ pc = "poll"
    /\ hist.timeouts = 1 /\ hist.jobs = 3
    /\ state.window_length = <<>>
    /\ state.bookmark = <<FmtS(loc.job[1])>>
    /\ loc.job[2] - loc.job[1] > 15 * 86400
    /\ parse(bookmark_of(hist.state0)) + 15 * 86400 = loc.job[1]

\* the state as last made durable: the last STATE written, or the state the
\* sync was given when none has been written
FlushedAt(o) == IF States(o) = <<>> THEN hist.state0 ELSE LastState(o)

Flushed == FlushedAt(out)

\* an HTTP request has just been sent (a job created or polled, a file
\* requested) or a RECORD has just been written with its STATE
RequestOrRecord ==
    /\ prog = "sync_stream"
    /\ \/ pc = "poll"
       \/ pc = "rows" /\ hist.last.act \in {"", "record"}

\* C30 as stated: every mutation of the in-memory state during a stream's
\* sync (removing a file id, adopting current_window_end as bookmark,
\* removing window_length, advancing the bookmark) is followed by a STATE
\* write before the next HTTP request is sent or the next RECORD is written.
C30_MutationsFlushedBeforeRequests ==
    RequestOrRecord => state = Flushed

\* what the code does: an advanced bookmark is written at once (lines
\* 119-120), and so is the state a timeout changed; the removal of a file
\* id (line 71), the adoption of current_window_end (lines 169-171) and the
\* removal of window_length (line 243) are followed by a request with no
\* STATE in between
C30_OnlyBookmarkAdvanceFlushed ==
    /\ (prog = "sync_stream" /\ pc = "rows" /\ hist.last.act = "record" /\ has_rk)
          => state = Flushed
    /\ (prog = "sync_stream" /\ pc = "rows" /\ hist.last.act = "" /\ loc.aliased)
          => state # Flushed

C30_Witness ==
    /\ prog = "sync_stream" /\ ~is_rest /\ pc = "rows" /\ hist.last.act = ""
    /\ hist.jobs = 1 /\ hist.state0.current_window_end # <<>>
    /\ Flushed.file_ids = ListIds(<<1, 2>>) /\ state.file_ids = ListIds(<<2>>)
    /\ Flushed.bookmark # state.bookmark

---------------------------------------------------------------------------
(* Export jobs pending upstream *)

\* C31 as stated: at any time at most one export job created by the sync is
\* pending upstream: no new data-path job is submitted while an earlier job
\* of the same run has neither completed nor failed, also on the retry that
\* follows a polling timeout.
C31_AtMostOneJobPending ==
    prog = "sync_stream" => hist.pending <= 1

\* what the code does: a job whose polling timed out is left as it is
\* (nothing cancels it) and the retry submits another one (sync.py:179 and
\* 234), so each timeout leaves one more job behind; between timeouts the
\* sync waits for one job at a time
C31_OneJobLeftPerTimeout ==
    prog = "sync_stream" =>
        hist.pending = hist.timeouts + (IF pc = "poll" THEN 1 ELSE 0)

\* the retry after one timeout is being polled while the first job is
\* still pending
C31_Witness ==
    /\ prog = "sync_stream" /\ pc = "poll"
    /\ hist.timeouts = 1 /\ hist.jobs = 2 /\ hist.pending = 2

---------------------------------------------------------------------------
(* The version of a stream *)

\* the step is a call of get_version on the State object
GetVersionCalled ==
    prog = "state" /\ sobj'.calls = sobj.calls + 1 /\ sobj'.last.op = "get_version"

\* C32: a stream's version, once present in state, is not changed by any sync
\* operation (job creation, polling, timeout and window halving, file
\* consumption, 404 handling) except when a non-rectangular CSV invalidates
\* the session; State.get_version assigns a version only when the stream has
\* none and returns that same stored value on every later call.
C32_VersionStable ==
    [][ /\ (prog = "sync_stream" /\ error' # "NonRectangular")
            => state'.version = state.version
        /\ prog = "state" =>
              \A n \in {1, 2} :
                 sobj.bookmarks[n].version # <<>>
                    => sobj'.bookmarks[n].version = sobj.bookmarks[n].version
        /\ GetVersionCalled =>
              LET n == sobj'.last.entity IN
              /\ ~sobj'.last.raised
              /\ sobj'.last.ret = sobj'.bookmarks[n].version
              /\ sobj'.last.ret = IF sobj.bookmarks[n].version = <<>>
                                  THEN <<now>> ELSE sobj.bookmarks[n].version
      ]_vars

\* get_version was called twice for a stream without a version: the second
\* call, a second later, returned the version the first one assigned
C32_Witness ==
    /\ prog = "state" /\ sobj.calls = 2 /\ sobj.last.op = "get_version"
    /\ now = RunStart + 2
    /\ sobj.last.ret = <<RunStart>>
    /\ sobj.bookmarks[sobj.last.entity].version = <<RunStart>>

---------------------------------------------------------------------------
(* The bookmark kept by the State object *)

EntityNamed(n) == CHOOSE e \in StateEntities : e.name = n

\* what get_bookmark answers for the name: the stored bookmark, or the
\* default start date when none is stored
CurrentBookmark(s, n) ==
    IF s.bookmarks[n].bookmark # <<>> THEN s.bookmarks[n].bookmark[1]
    ELSE s.default_start_date[1]

\* the step is a call of the method on the State object
StateCalled(op) ==
    prog = "state" /\ sobj'.calls = sobj.calls + 1 /\ sobj'.last.op = op

\* C35: State.set_bookmark never lowers a stream's bookmark: a value not
\* greater than the current bookmark (the stored one, or the default start
\* date when none is stored) leaves the stored bookmark unchanged;
\* get_bookmark and set_bookmark called for an entity without a replication
\* key raise an error and change no bookmark.  Greater is the order of the
\* strings, as in the program.
C35_BookmarkNeverLowered ==
    [][ /\ StateCalled("set_bookmark") =>
              LET n   == sobj'.last.entity
                  arg == sobj'.last.arg[1]
              IN  IF EntityNamed(n).replication_key
                  THEN /\ ~sobj'.last.raised
                       /\ ~StrLess(CurrentBookmark(sobj', n), CurrentBookmark(sobj, n))
                       /\ IF StrLess(CurrentBookmark(sobj, n), arg)
                          THEN sobj'.bookmarks[n].bookmark = <<arg>>
                          ELSE sobj'.bookmarks[n].bookmark = sobj.bookmarks[n].bookmark
                       /\ \A m \in {1, 2} \ {n} : sobj'.bookmarks[m] = sobj.bookmarks[m]
                  ELSE sobj'.last.raised /\ sobj'.bookmarks = sobj.bookmarks
        /\ StateCalled("get_bookmark") =>
              LET n == sobj'.last.entity IN
              IF EntityNamed(n).replication_key
              THEN /\ ~sobj'.last.raised
                   /\ sobj'.last.ret = <<CurrentBookmark(sobj, n)>>
                   /\ \A m \in {1, 2} : sobj'.bookmarks[m].bookmark = sobj.bookmarks[m].bookmark
              ELSE sobj'.last.raised /\ sobj'.bookmarks = sobj.bookmarks
      ]_vars

\* set_bookmark was given the instant before the stored bookmark: the stored
\* bookmark is as it was
C35_Witness ==
    /\ prog = "state" /\ sobj.last.op = "set_bookmark" /\ sobj.last.entity = 1
    /\ sobj.last.arg = <<FmtF(RunStart - 1)>>
    /\ sobj.bookmarks[1].bookmark = <<FmtF(RunStart)>>

---------------------------------------------------------------------------
(* A failed export job *)

\* the step is a poll that reports the job failed (batch) or Cancelled/Failed
\* (sync)
JobReportedFailed ==
    prog = "sync_stream" /\ pc = "poll" /\ hist'.last.act = "job_failed"

\* C33: when a poll reports the job as failed (batch) or Cancelled/Failed
\* (sync), polling stops at once with an export-failed error carrying the
\* server message; this error is not treated as a timeout: no window halving
\* happens, no new job is submitted for the stream, and the stream's
\* bookmark, file_ids, current_window_end and window_length are unchanged.
\* The poll that finds the job failed raises before the sleep of line 45, so
\* the clock stays where the pending polls before it left it; the error is
\* raised with the message of that answer and nothing else.
C33_FailedJobEndsSync ==
    [][ JobReportedFailed =>
          /\ pc' = "failed" /\ error' = "ExportFailed"
          /\ job_ready(is_rest, hist'.poll.status) = "ExportFailed"
          /\ hist'.poll.message \in ServerMessages
          /\ hist'.poll.raised = <<hist'.poll.message>>
          /\ hist'.poll.n = hist.poll.n
          /\ now' = now
          /\ hist'.jobs = hist.jobs /\ hist'.timeouts = hist.timeouts
          /\ state' = state /\ out' = out /\ loc' = loc
      ]_vars

\* the retry after a timeout of the batch driver was found pending by one
\* poll and reported failed by the next: the halved window of the timeout is
\* still in state, two jobs were made, and the error carries the message
C33_Witness ==
    /\ prog = "sync_stream" /\ ~is_rest /\ has_rk
    /\ pc = "failed" /\ error = "ExportFailed" /\ hist.last.act = "job_failed"
    /\ hist.poll.n = 1 /\ hist.poll.status = "failed"
    /\ hist.poll.raised = <<"message 2">>
    /\ hist.timeouts = 1 /\ hist.jobs = 2
    /\ state.current_window_end # <<>>
    /\ hist.state0.current_window_end = <<>>

---------------------------------------------------------------------------
(* Object describe *)

\* the describe request of the last object was answered with its fields
Described ==
    /\ prog = "discover" /\ disc.pos > 0
    /\ disc.last.describe \in {"fields", "no_fields"}

\* a required key field of the answer lacks the export context
RequiredKeyUnexportable(xml) ==
    \E i \in 1..Len(xml.fields) :
       ~xml.fields[i].export /\ xml.fields[i].name \in REQUIRED_KEYS

\* the last object is not in the catalog
Dropped ==
    \A i \in 1..Len(disc.streams) : disc.streams[i] # disc.names[disc.pos]

\* the fields without the export context are not among the properties
UnexportableFieldsDropped(xml) ==
    \A i \in 1..Len(xml.fields) :
       ~xml.fields[i].export =>
          [name |-> xml.fields[i].name, joined |-> FALSE] \notin get_field_dict(xml)

\* C34 as stated: if a required key field (Id, UpdatedDate, TransactionDate
\* or UpdatedOn) of an object lacks the export context, the object is dropped
\* from the catalog (discover_stream returns no entry), whether or not the
\* object has related objects; a non-required field lacking the export
\* context is dropped while the object is kept.
C34_UnexportableKeyDropsObject ==
    Described =>
       /\ UnexportableFieldsDropped(disc.last.xml)
       /\ IF RequiredKeyUnexportable(disc.last.xml)
          THEN disc.last.describe = "no_fields" /\ Dropped
          ELSE disc.last.describe = "fields"

\* what the code does: the object is dropped when it has no related objects;
\* with related objects field_dict holds their Id fields (lines 119-126),
\* line 154 lets the object pass, and it enters the catalog with those
\* fields alone when it is available for export
C34_DroppedUnlessRelatedObjects ==
    Described =>
       /\ UnexportableFieldsDropped(disc.last.xml)
       /\ IF RequiredKeyUnexportable(disc.last.xml)
          THEN IF disc.last.xml.related = {}
               THEN disc.last.describe = "no_fields" /\ Dropped
               ELSE /\ disc.last.describe = "fields"
                    /\ \A f \in get_field_dict(disc.last.xml) : f.joined
                    /\ (pc # "failed" /\ stream_status(is_rest, disc.last.body) # "unavailable")
                          => ~Dropped
          ELSE disc.last.describe = "fields"

\* an object whose Id lacks the export context and which has a related
\* object is in the catalog
C34_Witness ==
    /\ Described /\ ~Dropped
    /\ disc.last.xml.fields[1] = [name |-> "Id", export |-> FALSE]
    /\ disc.last.xml.related = {"Account"}

---------------------------------------------------------------------------
(* An interrupted sync and the sync that resumes it.  The process is ended  *)
(* by a signal while a stream is synced, and the next invocation is given   *)
(* the last STATE written.  The server holds the same rows for both runs.   *)

\* the process ends with o written, and sync_stream is entered again with
\* the last STATE of o (the state it was given when o holds none)
interrupted_at(o) ==
    /\ out' = o
    /\ state' = FlushedAt(o)
    /\ pc' = "start" /\ loc' = InitLoc
    /\ hist' = [InitHist(FlushedAt(o)) EXCEPT !.pending = hist.pending]
    /\ srv' = [srv EXCEPT !.run = 2, !.pos = 0]

\* the process ends while the stream is synced: while it waits for the
\* answer to a request, or between two writes of sync.py: after the
\* write_record of a row (line 118) and before its write_state (line 120),
\* or after the write_state that ends sync_file_ids (line 134) and before
\* the write_state of the window (line 227)
interrupted ==
    /\ prog = "sync_stream" /\ srv.tracked /\ srv.run = 1
    /\ \/ /\ pc \in {"poll", "file", "rows"}
          /\ interrupted_at(out)
       \/ /\ pc = "rows" /\ has_rk /\ srv.pos < Len(srv.files[loc.cur_file])
          /\ LET v == <<srv.files[loc.cur_file][srv.pos + 1]>> IN
                /\ ~drop_row(v, loc.start_date)
                /\ interrupted_at(write_record(out, v))
       \/ /\ pc = "file" /\ loc.file_ids = <<>> /\ loc.ret = "rest_window"
          /\ interrupted_at(write_state(out, after_files(state)))
    /\ UNCHANGED <<prog, error, now, is_rest, has_rk, dvars, cvars, disc, load, sobj>>

\* the rows the server holds: distinct replication-key values from the
\* bookmark on, in any order (the order of an export is exported_rows')
Tables(first) ==
    { t \in UNION { [1..n -> { FmtF(first + d) : d \in 0..(MaxRows - 1) }] : n \in 0..MaxRows } :
        \A i \in 1..Len(t), j \in 1..Len(t) : i # j => t[i] # t[j] }

InitResume ==
    /\ error = "" /\ out = <<>> /\ now = RunStart
    /\ prog = "sync_stream" /\ pc = "start"
    /\ is_rest \in BOOLEAN /\ has_rk = TRUE
    /\ state \in { e \in InitEntries(is_rest, TRUE) :
                     /\ parse(bookmark_of(e)) = RunStart - 2
                     /\ ~Truthy(e.file_ids)
                     /\ e.current_window_end = <<>> /\ e.window_length = <<>> }
    /\ loc = InitLoc /\ hist = InitHist(state)
    /\ current_entity = 0 /\ bookmarks = <<>> /\ idx = 0 /\ started = FALSE
    /\ entities = <<>> /\ input_entity = 0 /\ synced = <<>> /\ nrec = 0
    /\ config = NoConfig /\ cli = NoClient /\ disc = NoDisc /\ load = NoLoad
    /\ sobj = NoState
    /\ \E t \in Tables(RunStart - 2) :
          srv = [NoSrv EXCEPT !.tracked = TRUE, !.table = t, !.bookmark = state.bookmark]

NextResume ==
    \/ sync_aqua_stream
    \/ sync_rest_stream
    \/ poll_pending
    \/ poll_ready
    \/ stream_file
    \/ read_line
    \/ end_file
    \/ files_done
    \/ interrupted

SpecResume == InitResume /\ [][NextResume]_vars

\* the row was written as a RECORD
Written(r) == \E i \in 1..Len(out) : out[i].type = "RECORD" /\ out[i].rk = <<r>>

\* the resuming run ended without error after a run that was interrupted
\* with an export at hand
ResumedCleanEnd ==
    /\ prog = "sync_stream" /\ srv.tracked /\ srv.run = 2 /\ srv.exported > 0
    /\ pc = "done"

\* C36 as stated: if a run is interrupted at any point and the next run starts
\* from the last STATE written, then every row of the interrupted stream's
\* export whose replication key is greater than or equal to the bookmark at
\* the start of the interrupted run is written as a RECORD in the interrupted
\* run or in the resuming run, for exports of one or several files and for
\* any row order.  Greater or equal is the order of the strings, the one the
\* program filters rows with.
C36_NoRowLostOverInterruption ==
    ResumedCleanEnd =>
       \A i \in 1..Len(srv.table) :
          ~StrLess(srv.table[i], srv.bookmark[1]) => Written(srv.table[i])

\* the server exports the rows in the order of their replication keys: the
\* batch driver asks for that order, the sync driver gets the table's
Ascending ==
    LET rows == IF is_rest THEN srv.table ELSE order_by_asc(srv.table) IN
    \A i \in 1..Len(rows), j \in 1..Len(rows) :
       i < j => parse(rows[i]) < parse(rows[j])

\* what the code does: no row is lost when the interrupted export was one
\* file with its rows in ascending order; the id of a file leaves the state
\* when the file is opened (line 71), so the rest of an interrupted file is
\* read again only through a new job from the bookmark, which leaves out
\* the rows of files not yet opened and rows older than one already written
C36_OneAscendingFileResumes ==
    (ResumedCleanEnd /\ srv.exported = 1 /\ Ascending) =>
       \A i \in 1..Len(srv.table) :
          ~StrLess(srv.table[i], srv.bookmark[1]) => Written(srv.table[i])

\* the batch driver was interrupted in the first of two files after its
\* first row; the resuming run read the second file and ended, and the
\* second row of the first file was never written
C36_Witness ==
    /\ ResumedCleanEnd /\ ~is_rest /\ srv.exported = 2
    /\ Len(srv.table) = 2 /\ Ascending
    /\ parse(srv.table[1]) < parse(srv.table[2])
    /\ Written(srv.table[1]) /\ ~Written(srv.table[2])
    /\ ~StrLess(srv.table[2], srv.bookmark[1])

---------------------------------------------------------------------------
(* Rows of the batch driver's export after timeouts *)

BatchCleanEnd == prog = "sync_stream" /\ ~is_rest /\ has_rk /\ pc = "done"

\* C37 as stated: batch driver: in a per-stream sync that completes without
\* error, every row of the consumed export files with a non-null replication
\* key greater than or equal to the bookmark held at the start of that sync
\* is written as a RECORD, also when the sync went through one or more
\* timeouts and window halvings (or started with current_window_end in state)
\* before the export completed.  Greater or equal is the order of the
\* strings, the one line 114 uses.
C37_RowsFromBookmarkWritten ==
    BatchCleanEnd =>
       \A v \in hist.dropped :
          v = <<>> \/ StrLess(v[1], bookmark_of(hist.state0))

\* what the code does: the rows written are those not less than the
\* start_date of sync_file_ids (line 66), which is read after lines 169-171
\* made current_window_end the bookmark: after a timeout, or with
\* current_window_end in the state given, the rows between the bookmark and
\* that window end are skipped
C37_RowsFromWindowEndWritten ==
    BatchCleanEnd =>
       /\ \A v \in hist.dropped : v = <<>> \/ StrLess(v[1], loc.start_date[1])
       /\ (hist.timeouts = 0 /\ hist.state0.current_window_end = <<>>)
             => loc.start_date = hist.state0.bookmark

\* a sync that ended without error after a timeout skipped a row that is
\* later than the bookmark it started with
C37_Witness ==
    /\ BatchCleanEnd /\ hist.timeouts = 1
    /\ hist.state0.current_window_end = <<>>
    /\ \E v \in hist.dropped :
          v # <<>> /\ parse(v[1]) > parse(bookmark_of(hist.state0))

---------------------------------------------------------------------------
(* The batch driver when every export job times out, with or without a      *)
(* replication key                                                          *)

InitBatchTimeouts ==
    /\ Init
    /\ prog = "sync_stream" /\ ~is_rest /\ needs_job(state)

NextBatchTimeouts == job_submitted \/ job_times_out \/ recursion_error

SpecBatchTimeouts ==
    InitBatchTimeouts /\ [][NextBatchTimeouts]_vars /\ WF_vars(NextBatchTimeouts)

\* C38: batch driver, FULL_TABLE stream (no replication key): if every
\* export job for the stream times out, the per-stream sync ends with an
\* error after finitely many attempts; it does not resubmit the same job
\* without bound.  The sync fails in the end, and the retries that are open
\* with the frames of the other calls never pass the limit the interpreter
\* sets to nested calls.
C38_FullTableTimeoutsEnd ==
    /\ ~has_rk => <>(pc = "failed" /\ error # "")
    /\ [](~has_rk => hist.depth + MinOtherFrames <= RecursionLimit)

\* how it ends: handle_aqua_timeout returns at once for a stream without a
\* replication key (lines 139-140), so until the sync fails every timeout is
\* followed by the same job again (line 179), with nothing written and the
\* state and the query the same; the only error that ends it is the
\* interpreter's RecursionError, raised when the retries, each a call nested
\* in the one before, use up the stack
C38_FullTableRetriesSameJob ==
    /\ [](~has_rk /\ pc = "failed" =>
             /\ error = "RecursionError"
             /\ hist.depth + MaxOtherFrames >= RecursionLimit
             /\ hist.depth + MinOtherFrames <= RecursionLimit
             /\ state = hist.state0 /\ out = <<>>)
    /\ [][ (~has_rk /\ pc = "poll" /\ pc' = "poll"
            /\ hist'.timeouts = hist.timeouts + 1) =>
              /\ state' = state /\ out' = out
              /\ hist'.query = hist.query
              /\ hist'.depth = hist.depth + 1
         ]_vars

\* the sync of a FULL_TABLE stream has failed with the job of its deepest
\* retry created, after as many timeouts as the interpreter allows nested
\* calls beside the fewest other frames
C38_Witness ==
    /\ prog = "sync_stream" /\ ~is_rest /\ ~has_rk
    /\ pc = "failed" /\ error = "RecursionError"
    /\ hist.depth + MinOtherFrames = RecursionLimit
    /\ hist.jobs = hist.depth + 1 /\ hist.timeouts = hist.depth
    /\ state = hist.state0 /\ out = <<>>

---------------------------------------------------------------------------
(* The windows of the sync driver *)

\* the windows w lie end to end from a up to b: the first starts at a, each
\* next one starts where the one before it ended, the last ends at b, none
\* is empty or longer than the window_length it was cut with; there is no
\* window at all when a is not before b
Tiles(w, a, b) ==
    IF a >= b THEN w = <<>>
    ELSE /\ w # <<>>
         /\ w[1].start = a
         /\ w[Len(w)].end = b
         /\ \A i \in 1..Len(w) :
               /\ w[i].start < w[i].end
               /\ w[i].end - w[i].start <= w[i].length
               /\ i > 1 => w[i].start = w[i - 1].end

\* the sync driver on an incremental stream
RestWindows == prog = "sync_stream" /\ is_rest /\ has_rk

\* a polling timeout of a window's job that is followed by a retry
RestTimeoutRetried ==
    /\ RestWindows /\ pc = "poll" /\ pc' = "poll"
    /\ hist'.timeouts = hist.timeouts + 1

\* C39 as stated: sync driver, incremental stream: the windows of the jobs
\* that complete in one run tile [bookmark at start, sync-start moment)
\* exactly: the first window starts at the bookmark, each next window starts
\* at the previous window's end, no window is longer than the current
\* window_length, the last window ends at the sync-start moment, and no job
\* is created once the start reaches the sync-start moment; timeouts change
\* window lengths but never the start of the window being retried.  The
\* bookmark at start is the one of the state the run was given.
C39_WindowsTileFromGivenBookmark ==
    (RestWindows /\ pc = "done") =>
        Tiles(hist.windows, parse(bookmark_of(hist.state0)), loc.sync_started)

\* the same with the bookmark that sync_rest_stream reads in line 246, after
\* the files a state with file_ids names have been synced: start_pen at the
\* end of the run is the sync-start moment or the bookmark that was not
\* before it, and a job in flight starts at start_pen, before sync_started,
\* and is cut with the current window_length
C39_WindowsInvariant ==
    RestWindows =>
        /\ pc = "done" =>
              \E a \in {w.start : w \in {hist.windows[i] : i \in 1..Len(hist.windows)}}
                       \cup {loc.start_pen} :
                 /\ Tiles(hist.windows, a, loc.sync_started)
                 /\ hist.windows = <<>> => loc.start_pen >= loc.sync_started
                 /\ hist.windows # <<>> => loc.start_pen = loc.sync_started
        /\ (pc = "poll" /\ loc.ret = "rest_window") =>
              /\ loc.job[1] = loc.start_pen
              /\ loc.start_pen < loc.sync_started
              /\ loc.job[2] = Min(loc.start_pen + loc.window_length, loc.sync_started)
              /\ hist.windows # <<>> => loc.job[1] = hist.windows[Len(hist.windows)].end

\* C39, with the bookmark of line 246: the invariant above; a timeout that is
\* retried halves window_length and keeps the start, the sync-start moment
\* and the windows done; the windows begin at the bookmark the state holds
\* when sync_rest_stream reaches line 246; and start_pen moves only when a
\* window completes, to that window's end
C39_WindowsTile ==
    /\ [] C39_WindowsInvariant
    /\ [][ /\ RestTimeoutRetried =>
              /\ loc'.job[1] = loc.job[1]
              /\ loc'.start_pen = loc.start_pen
              /\ loc'.sync_started = loc.sync_started
              /\ loc'.window_length = loc.window_length \div 2
              /\ hist'.windows = hist.windows
           /\ (RestWindows /\ pc \in {"start", "file"} /\ pc' \in {"poll", "done"}
               /\ loc.ret # "rest_window") =>
              /\ loc'.start_pen = parse(bookmark_of(state))
              /\ loc'.sync_started = now
              /\ hist'.windows = <<>>
           /\ (RestWindows /\ loc.ret = "rest_window") =>
              IF pc = "file" /\ loc.file_ids = <<>> /\ pc' # pc
              THEN /\ hist'.windows = Append(hist.windows,
                                             [start |-> loc.start_pen, end |-> loc.job[2],
                                              length |-> loc.window_length])
                   /\ loc'.start_pen = loc.job[2]
              ELSE /\ loc'.start_pen = loc.start_pen
                   /\ hist'.windows = hist.windows
         ]_vars

\* a run of three windows ended: the first was cut short by a timeout, the
\* last by the sync-start moment
C39_Witness ==
    /\ RestWindows /\ pc = "done" /\ hist.timeouts > 0
    /\ Len(hist.windows) = 3
    /\ hist.windows[1].length < default_window
    /\ hist.windows[3].end = loc.sync_started
    /\ hist.windows[3].end - hist.windows[3].start < hist.windows[3].length

=============================================================================
